---- MODULE Spec2Model ----
(***************************************************************************)
(* AIMeetingFlow: the session manager, the buffered and streaming process  *)
(* runners of services/claude_cli_service.py and services/                 *)
(* codex_cli_service.py, and the subprocess helpers of web/routers/ai.py.  *)
(*                                                                         *)
(* Three specifications share this module:                                 *)
(*   SpecSession  the session slot driven through its four functions       *)
(*   Spec         whole invocations: execution lock, session, child        *)
(*   SpecStream   one streaming invocation at the level of pipes, reader   *)
(*                tasks, the event queue and the timeout scope             *)
(* A specification leaves the variables of the others at their initial     *)
(* values.                                                                 *)
(***************************************************************************)
EXTENDS Integers, Sequences, FiniteSets, TLC

VARIABLES
    \* ---- claude_cli_service.py module state
    SESSION_STATE,      \* _SESSION_STATE: [id, turns, last_used]
    settings,           \* config.settings fields read by the session code
    now,                \* time.monotonic(), in whole seconds
    minted,             \* number of ids uuid.uuid4() has produced so far
    \* ---- SpecSession: the last call made on the session functions
    last_call,
    good_touches,       \* successful touches of the current id since its mint
    \* ---- Spec: invocations of the runners
    EXEC_LOCK,          \* _SESSION_EXEC_LOCK: 0 when free, else the holder
    inv,                \* the invocation each caller has in flight
    calls,              \* number of invocations started so far
    \* ---- SpecStream: one streaming invocation and its child
    st,                 \* the generator's locals and position
    queue,              \* asyncio.Queue shared by the two readers
    delivered,          \* events yielded to the consumer, in order
    pump,               \* the two _pump tasks
    acc,                \* per channel: bytes read but not yet a whole line
    pipe,               \* per channel: bytes written and not yet read
    stdin,              \* input still to hand over, and bytes in the stdin pipe
    proc,               \* the child process
    \* ---- web/routers/ai.py: the watch pipeline and the issue writer
    AUTO_WATCH_STATE,   \* _AUTO_WATCH_STATE
    watch_config,       \* web/config.py: the persisted viewer configuration
    fs,                 \* per root: what it is and the files under it
    loop,               \* the _auto_watch_loop task: position and locals
    watch_log,          \* what the loop has done: ticks and handled files
    save_log,           \* the saves _save_ai_output has made
    probe               \* SpecResolve, SpecScan: the last function application

sessVars == <<SESSION_STATE, settings, now, minted>>
apiVars  == <<last_call, good_touches>>
invVars  == <<EXEC_LOCK, inv, calls>>
streamVars == <<st, queue, delivered, pump, acc, pipe, stdin, proc>>
vaultVars == <<AUTO_WATCH_STATE, watch_config, fs, loop, watch_log, save_log, probe>>
vars     == <<SESSION_STATE, settings, now, minted, last_call, good_touches,
              EXEC_LOCK, inv, calls,
              st, queue, delivered, pump, acc, pipe, stdin, proc,
              AUTO_WATCH_STATE, watch_config, fs, loop, watch_log, save_log, probe>>

----------------------------------------------------------------------------
\* Bounds of the model

\* the clock runs from 1 to MaxTime
MaxTime == 4
\* uuid4() is called at most MaxIds times
MaxIds == 3
\* a session is touched successfully at most MaxTurns times
MaxTurns == 3
\* the positive value tried for claude_cli_session_idle_sec
IdleLimit == 2
\* the positive value tried for claude_cli_session_max_turns
TurnLimit == 2
\* invocations started in one behaviour
MaxCalls == 2
\* in Spec the clock runs from 1 to MaxClock
MaxClock == 2

----------------------------------------------------------------------------
\* Texts. A text is a sequence of tokens; a token is a word or phrase in the
\* case the child wrote it, or one whitespace character.

Whitespace == {" ", "\n", "\r"}

\* str.lower() on one token
LowerTok(t) ==
    CASE t = "Session"   -> "session"
      [] t = "SESSION"   -> "session"
      [] t = "Not Found" -> "not found"
      [] t = "INVALID"   -> "invalid"
      [] t = "Invalid"   -> "invalid"
      [] t = "Error"     -> "error"
      [] t = "Issues"    -> "issues"
      [] t = "ISSUES"    -> "issues"
      [] t = "Out"       -> "out"
      [] t = "NOTES"     -> "notes"
      [] t = "TXT"       -> "txt"
      [] t = "MD"        -> "md"
      [] t = "Beta"      -> "beta"
      [] OTHER           -> t

\* str.lower()
Lower(text) == [k \in 1..Len(text) |-> LowerTok(text[k])]

\* `phrase in text`
Contains(text, phrase) == \E k \in 1..Len(text) : text[k] = phrase

RECURSIVE LStrip(_)
LStrip(text) ==
    IF text # <<>> /\ Head(text) \in Whitespace THEN LStrip(Tail(text)) ELSE text

RECURSIVE RStrip(_)
RStrip(text) ==
    IF text # <<>> /\ text[Len(text)] \in Whitespace
    THEN RStrip(SubSeq(text, 1, Len(text) - 1))
    ELSE text

\* str.strip()
Strip(text) == RStrip(LStrip(text))

----------------------------------------------------------------------------
\* SessionManager (claude_cli_service.py)

\* the empty session id ""
NoId == 0

EmptySession == [id |-> NoId, turns |-> 0, last_used |-> 0]

\* max(0, int(value or 0))
Max0(v) == IF v > 0 THEN v ELSE 0

idle_limit == Max0(settings.claude_cli_session_idle_sec)
turn_limit == Max0(settings.claude_cli_session_max_turns)

\* _lease_session_id with the idle comparison written > instead of >=
lease_idle_strict(S, t, fresh) ==
    LET idle_expired == /\ S.id # NoId
                        /\ idle_limit > 0
                        /\ S.last_used > 0
                        /\ (t - S.last_used) > idle_limit
        turn_expired == /\ S.id # NoId
                        /\ turn_limit > 0
                        /\ S.turns >= turn_limit
    IN  IF S.id = NoId \/ idle_expired \/ turn_expired
        THEN [state   |-> [id |-> fresh, turns |-> 0, last_used |-> t],
              id      |-> fresh,
              created |-> TRUE]
        ELSE [state |-> S, id |-> S.id, created |-> FALSE]

\* _lease_session_id with the clock reading t and the uuid4() result fresh:
\* the new slot, the returned id and the created flag
_lease_session_id(S, t, fresh) ==
    LET idle_expired == /\ S.id # NoId
                        /\ idle_limit > 0
                        /\ S.last_used > 0
                        /\ (t - S.last_used) >= idle_limit
        turn_expired == /\ S.id # NoId
                        /\ turn_limit > 0
                        /\ S.turns >= turn_limit
    IN  IF S.id = NoId \/ idle_expired \/ turn_expired
        THEN [state   |-> [id |-> fresh, turns |-> 0, last_used |-> t],
              id      |-> fresh,
              created |-> TRUE]
        ELSE [state |-> S, id |-> S.id, created |-> FALSE]

\* _touch_session counting every touch, failed ones too
touch_counts_failures(S, session_id, success, t) ==
    IF session_id = NoId THEN S
    ELSE IF S.id # session_id THEN S
    ELSE [S EXCEPT !.last_used = t, !.turns = @ + 1]

\* _touch_session at clock reading t
_touch_session(S, session_id, success, t) ==
    IF session_id = NoId THEN S
    ELSE IF S.id # session_id THEN S
    ELSE [S EXCEPT !.last_used = t,
                   !.turns = IF success THEN @ + 1 ELSE @]

\* _reset_session without the comparison with the current id
reset_ignores_id(S, session_id) ==
    IF session_id = NoId THEN S ELSE EmptySession

_reset_session(S, session_id) ==
    IF session_id = NoId THEN S
    ELSE IF S.id # session_id THEN S
    ELSE EmptySession

\* _maybe_reset_session_from_error matching case-sensitively (no lower())
maybe_reset_case_sensitive(S, session_id, error_text) ==
    IF error_text = <<>> THEN S
    ELSE IF /\ Contains(error_text, "session")
            /\ (Contains(error_text, "not found") \/ Contains(error_text, "invalid"))
         THEN _reset_session(S, session_id)
         ELSE S

_maybe_reset_session_from_error(S, session_id, error_text) ==
    LET lowered == Lower(error_text)
    IN  IF lowered = <<>> THEN S
        ELSE IF /\ Contains(lowered, "session")
                /\ (Contains(lowered, "not found") \/ Contains(lowered, "invalid"))
             THEN _reset_session(S, session_id)
             ELSE S

----------------------------------------------------------------------------
\* CommandResolver and the session flag (claude_cli_service.py)

\* Path(token).name.lower()
BinaryName(token) ==
    CASE token = "/usr/bin/claude" -> "claude"
      [] token = "Claude"          -> "claude"
      [] token = "/opt/bin/codex"  -> "codex"
      [] token = "CODEX"           -> "codex"
      [] OTHER                     -> token

claude_subcommands ==
    {"agents", "auth", "doctor", "install", "mcp", "plugin", "setup-token",
     "update", "upgrade"}

\* _resolve_command inserting -p without looking for a print flag
resolve_claude_always_inserts(configured) ==
    LET command == IF configured = <<>> THEN <<"claude">> ELSE configured
        has_subcommand == Len(command) > 1 /\ command[2] \in claude_subcommands
    IN  IF BinaryName(command[1]) = "claude" /\ ~has_subcommand
        THEN <<command[1], "-p">> \o Tail(command)
        ELSE command

\* _resolve_command on the configured command as shlex.split leaves it, <<>>
\* for an empty or blank setting (shlex.split never returns an empty list for
\* a text that is not blank, so `if not command` is never taken)
resolve_claude(configured) ==
    LET command == IF configured = <<>> THEN <<"claude">> ELSE configured
        has_print_flag == \E k \in 2..Len(command) :
                              command[k] \in {"-p", "--print"}
        has_subcommand == Len(command) > 1 /\ command[2] \in claude_subcommands
    IN  IF /\ BinaryName(command[1]) = "claude"
           /\ ~has_print_flag
           /\ ~has_subcommand
        THEN <<command[1], "-p">> \o Tail(command)
        ELSE command

_resolve_command == resolve_claude(settings.claude_cli_command)

codex_subcommands ==
    {"exec", "review", "login", "logout", "mcp", "mcp-server", "app-server",
     "app", "completion", "sandbox", "debug", "apply", "a", "resume", "fork",
     "cloud", "features", "help"}

\* codex_cli_service._resolve_command, on the same reading of the setting
resolve_codex(configured) ==
    LET command == IF configured = <<>> THEN <<"codex">> ELSE configured
        has_subcommand == Len(command) > 1 /\ command[2] \in codex_subcommands
    IN  IF BinaryName(command[1]) = "codex" /\ ~has_subcommand
        THEN <<command[1], "exec">> \o Tail(command)
        ELSE command

_command_has_session_flags(command) ==
    \E k \in 2..Len(command) :
        command[k] \in {"--session-id", "-r", "--resume", "-c", "--continue",
                        "--no-session-persistence", "--session-id=abc", "--resume=abc"}

\* _session_reuse_supported without the look for session flags
reuse_ignores_flags(command) ==
    /\ settings.claude_cli_reuse_session
    /\ command # <<>>
    /\ BinaryName(command[1]) = "claude"

_session_reuse_supported(command) ==
    /\ settings.claude_cli_reuse_session
    /\ command # <<>>
    /\ BinaryName(command[1]) = "claude"
    /\ ~_command_has_session_flags(command)

\* _build_command_with_session: the command run, the session id attached to
\* it ("" when reuse is skipped) and the session slot afterwards
_build_command_with_session(base_command, S, t, fresh) ==
    IF ~_session_reuse_supported(base_command)
    THEN [command |-> base_command, session_id |-> NoId, state |-> S,
          created |-> FALSE]
    ELSE LET r == _lease_session_id(S, t, fresh)
         IN  [command    |-> base_command \o <<"--session-id", r.id>>,
              session_id |-> r.id,
              state      |-> r.state,
              created    |-> r.created]

----------------------------------------------------------------------------
\* Invocations: one record per caller

\* two concurrent callers, each starting one invocation after another
Procs == {1, 2}

\* the runner a caller enters
Kinds ==
    {"generate_with_claude_cli", "stream_claude_cli",
     "generate_with_codex_cli", "stream_codex_cli",
     "summarize_file_to_issue"}

IsClaude(kind)   == kind \in {"generate_with_claude_cli", "stream_claude_cli"}
\* run_claude / run_codex: subprocess.run in a worker thread
IsBuffered(kind) == kind \in {"generate_with_claude_cli", "generate_with_codex_cli"}
\* the async generators
IsStream(kind)   == kind \in {"stream_claude_cli", "stream_codex_cli"}

\* source texts: one of whitespace only and a real one
Transcripts == {<<" ", "\n">>, <<"notes", "\n">>}

NoResult == [returncode |-> -1, stdout |-> <<>>, stderr |-> <<>>]

\* what a child leaves behind when it exits by itself
ChildResults ==
    {[returncode |-> 0, stdout |-> <<"summary", "\n">>, stderr |-> <<>>],
     [returncode |-> 0, stdout |-> <<" ", "\n">>,
      stderr |-> <<"Session", "Not Found", "\n">>],
     [returncode |-> 2, stdout |-> <<>>,
      stderr |-> <<"Error", "Session", "Not Found", "\n">>],
     [returncode |-> 1, stdout |-> <<"summary">>, stderr |-> <<"INVALID", "session">>],
     [returncode |-> 1, stdout |-> <<>>, stderr |-> <<"session", "expired">>],
     [returncode |-> 1, stdout |-> <<>>, stderr |-> <<"\n">>]}

NoInv ==
    [kind       |-> "none",
     transcript |-> <<>>,
     pc         |-> "idle",
     session_id |-> NoId,       \* id attached to the command
     child      |-> "none",     \* none, running, killed, reaped, exited
     result     |-> NoResult,
     verdict    |-> "none",     \* terminal outcome the runner decided
     caller     |-> "none"]     \* waiting, or cancelled (gone)

InvIdle ==
    /\ EXEC_LOCK = 0
    /\ inv = [i \in Procs |-> NoInv]
    /\ calls = 0

----------------------------------------------------------------------------
\* The streaming invocation SpecStream follows, before it starts

Channels == {"stdout", "stderr"}

NoStream ==
    [pc            |-> "start",
     session_id    |-> NoId,
     timer         |-> "off",      \* asyncio.timeout: off, armed, fired
     eof_count     |-> 0,
     stdout_chunks |-> <<>>,       \* kept joined
     stderr_chunks |-> <<>>,
     returncode    |-> -1,
     abandoned     |-> FALSE,      \* CancelledError / GeneratorExit thrown in
     outcome       |-> "none"]

NoProc ==
    [state      |-> "none",        \* none, running, exited, killed
     returncode |-> -1,
     todo       |-> [c \in Channels |-> <<>>],   \* bytes still to write
     open       |-> [c \in Channels |-> TRUE],   \* its end of the pipe
     out        |-> <<>>,          \* everything it writes to stdout
     err        |-> <<>>]          \* and to stderr

StreamIdle ==
    /\ st = NoStream
    /\ queue = <<>>
    /\ delivered = <<>>
    /\ pump = [c \in Channels |-> "none"]
    /\ acc = [c \in Channels |-> <<>>]
    /\ pipe = [c \in Channels |-> <<>>]
    /\ stdin = [left |-> 0, pipe |-> 0]
    /\ proc = NoProc

----------------------------------------------------------------------------
\* The vault, the watch state and the viewer configuration, before anything
\* runs. A file or directory name is a text; a path is a sequence of names.

\* str(vault) of the roots the configuration may point to
Roots == {"/vaultA", "/vaultB"}

\* DEFAULT_ISSUE_FOLDER
DefaultIssueFolder == <<"issue">>

\* _AUTO_WATCH_STATE as the module creates it; "" is the empty text, no
\* timestamp is 0
WatchStateInit(enabled) ==
    [enabled             |-> enabled,
     task                |-> "none",      \* none or alive
     known_files         |-> {},
     vault_path          |-> "",
     processed_count     |-> 0,
     last_processed_file |-> <<>>,
     last_saved_path     |-> <<>>,
     last_processed_at   |-> 0,
     last_error          |-> <<>>,
     last_error_at       |-> 0]

\* the loop task before it is created. Its pc is none, then the suspension
\* point it is at (sleep, settle, summarize, retry_sleep) or next_file at the
\* head of the for loop, and returned or raised once the coroutine has ended.
NoLoop ==
    [pc         |-> "none",
     vault      |-> "",        \* `vault` of the tick that queued the batch
     new_files  |-> <<>>,      \* the rest of the batch, in order
     rel_path   |-> <<>>,      \* the file being handled
     file_vault |-> ""]        \* `vault` of the handler, then of the summarizer

NoWatchLog ==
    [tick      |-> [kind |-> "none"],   \* what the last tick saw and did
     handled   |-> <<>>,       \* the files handled since the last tick began
     in_flight |-> {},         \* files whose handling has begun and not ended
     handed    |-> {},         \* the paths handed to the handler and found
                               \* by every scan made since
     absorbed  |-> {},         \* the paths an enabling request has taken
                               \* into known_files of a loop that was
                               \* watching the same root, since the last tick
     dirty     |-> FALSE,      \* a vault has changed since the last tick
     events    |-> 0]          \* changes made to the vaults from outside

NoProbe == [op |-> "none"]

VaultIdle ==
    /\ AUTO_WATCH_STATE = WatchStateInit(FALSE)
    /\ watch_config = [vault_path         |-> "/vaultA",
                       auto_watch_enabled |-> FALSE,
                       issue_folder       |-> DefaultIssueFolder]
    /\ fs = [r \in Roots |-> [kind |-> "dir", files |-> {}]]
    /\ loop = NoLoop
    /\ watch_log = NoWatchLog
    /\ save_log = <<>>
    /\ probe = NoProbe

----------------------------------------------------------------------------
\* SpecSession: the four session functions called in any order, with any
\* id ever minted (or the empty id), under a ticking clock.

SettingsChoices ==
    [claude_cli_session_idle_sec  : {-1, 0, IdleLimit},
     claude_cli_session_max_turns : {-1, 0, TurnLimit},
     claude_cli_reuse_session     : {TRUE},
     claude_cli_command           : {<<"claude">>}]

NoCall == [op |-> "none"]

SessionInit ==
    /\ SESSION_STATE = EmptySession
    /\ now = 1
    /\ minted = 0

ApiIdle ==
    /\ last_call = NoCall
    /\ good_touches = 0

\* time passes
Tick ==
    /\ now < MaxTime
    /\ now' = now + 1
    /\ UNCHANGED <<SESSION_STATE, settings, minted, last_call, good_touches>>
    /\ UNCHANGED <<invVars, streamVars, vaultVars>>

LeaseCall ==
    /\ minted < MaxIds
    /\ LET r == _lease_session_id(SESSION_STATE, now, minted + 1)
       IN  /\ SESSION_STATE' = r.state
           /\ minted' = IF r.created THEN minted + 1 ELSE minted
           /\ good_touches' = IF r.created THEN 0 ELSE good_touches
           /\ last_call' = [op |-> "lease", pre |-> SESSION_STATE, at |-> now,
                            touched |-> good_touches,
                            id |-> r.id, created |-> r.created]
    /\ UNCHANGED <<settings, now>>
    /\ UNCHANGED <<invVars, streamVars, vaultVars>>

TouchCall ==
    \E session_id \in 0..minted, success \in BOOLEAN :
        /\ SESSION_STATE.turns < MaxTurns
        /\ SESSION_STATE' = _touch_session(SESSION_STATE, session_id, success, now)
        /\ good_touches' = IF session_id # NoId /\ session_id = SESSION_STATE.id /\ success
                           THEN good_touches + 1 ELSE good_touches
        /\ last_call' = [op |-> "touch", pre |-> SESSION_STATE, at |-> now,
                         id |-> session_id, success |-> success]
        /\ UNCHANGED <<settings, now, minted>>
        /\ UNCHANGED <<invVars, streamVars, vaultVars>>

ResetCall ==
    \E session_id \in 0..minted :
        /\ SESSION_STATE' = _reset_session(SESSION_STATE, session_id)
        /\ good_touches' = IF SESSION_STATE'.id = NoId THEN 0 ELSE good_touches
        /\ last_call' = [op |-> "reset", pre |-> SESSION_STATE, at |-> now,
                         id |-> session_id]
        /\ UNCHANGED <<settings, now, minted>>
        /\ UNCHANGED <<invVars, streamVars, vaultVars>>

SessionNext == Tick \/ LeaseCall \/ TouchCall \/ ResetCall

InitSessionSpec ==
    /\ SessionInit
    /\ settings \in SettingsChoices
    /\ ApiIdle
    /\ InvIdle
    /\ StreamIdle
    /\ VaultIdle

SpecSession == InitSessionSpec /\ [][SessionNext]_vars

\* the configured limits as the claims read them: a value that is not
\* positive disables the limit
IdleSetting == settings.claude_cli_session_idle_sec
TurnSetting == settings.claude_cli_session_max_turns

\* the last call was a lease() that found a session in the slot
LeasedOverSession == last_call.op = "lease" /\ last_call.pre.id # NoId

IdleAtLease == last_call.at - last_call.pre.last_used

LeaseMinted ==
    /\ last_call.created
    /\ last_call.id # last_call.pre.id
    /\ last_call.id = minted
    /\ SESSION_STATE.id = last_call.id
    /\ SESSION_STATE.turns = 0

LeaseReused ==
    /\ ~last_call.created
    /\ last_call.id = last_call.pre.id
    /\ SESSION_STATE = last_call.pre

\* C2: with a positive idle limit L a lease() made when now - last_used >= L
\* mints a new id (turn_count 0, created = true); made when now - last_used
\* < L, the turn limit not reached, it returns the prior id with created =
\* false; with a limit that is not positive idleness never expires a session.
C2_IdleExpiry ==
    LeasedOverSession =>
        LET turnsLeft == TurnSetting <= 0 \/ last_call.pre.turns < TurnSetting
        IN  /\ (IdleSetting > 0 /\ IdleAtLease >= IdleSetting) => LeaseMinted
            /\ (IdleSetting > 0 /\ IdleAtLease < IdleSetting /\ turnsLeft)
                  => LeaseReused
            /\ (IdleSetting <= 0 /\ turnsLeft) => LeaseReused

\* a lease() exactly at the idle limit, the turn limit out of play, minted
C2_Witness ==
    /\ LeasedOverSession
    /\ IdleSetting > 0
    /\ IdleAtLease = IdleSetting
    /\ TurnSetting <= 0
    /\ last_call.created

\* C3: with a positive max-turns N, after N successful touches of the current
\* id the next lease() mints a new id (turn_count 0, created = true); after
\* fewer it returns the same id; failed touches never count (turn_count is
\* the number of successful touches); with max-turns not positive the turn
\* count never expires a session.
C3_TurnExpiry ==
    /\ SESSION_STATE.id # NoId => SESSION_STATE.turns = good_touches
    /\ LeasedOverSession =>
        LET idleLeft == IdleSetting <= 0 \/ IdleAtLease < IdleSetting
        IN  /\ (TurnSetting > 0 /\ last_call.touched >= TurnSetting) => LeaseMinted
            /\ (TurnSetting > 0 /\ last_call.touched < TurnSetting /\ idleLeft)
                  => LeaseReused
            /\ (TurnSetting <= 0 /\ idleLeft) => LeaseReused

\* a lease() after exactly N successful touches, idle expiry out of play
C3_Witness ==
    /\ LeasedOverSession
    /\ TurnSetting > 0
    /\ last_call.touched = TurnSetting
    /\ IdleSetting <= 0
    /\ last_call.created

----------------------------------------------------------------------------
\* Spec: callers run generate_with_claude_cli, stream_claude_cli, the codex
\* runners and summarize_file_to_issue concurrently. The event loop runs one
\* coroutine step at a time; run_claude and run_codex run in worker threads.
\* Here a streaming invocation drains its child in one step (SpecStream has
\* the pipes).

SpecSettings ==
    [claude_cli_session_idle_sec  : {0},
     claude_cli_session_max_turns : {TurnLimit},
     claude_cli_reuse_session     : BOOLEAN,
     claude_cli_command           : {<<"claude">>}]
    \cup
    [claude_cli_session_idle_sec  : {0},
     claude_cli_session_max_turns : {TurnLimit},
     claude_cli_reuse_session     : {TRUE},
     claude_cli_command           : {<<"/usr/bin/claude", "--resume">>,
                                     <<"/opt/bin/codex">>}]

Init ==
    /\ SessionInit
    /\ settings \in SpecSettings
    /\ ApiIdle
    /\ InvIdle
    /\ StreamIdle
    /\ VaultIdle

\* a caller enters a runner
Call(i) ==
    /\ calls < MaxCalls
    /\ \/ inv[i].pc = "idle"
       \/ inv[i].pc = "done" /\ inv[i].child \notin {"running", "killed"}
    /\ \E kind \in Kinds, transcript \in Transcripts :
           inv' = [inv EXCEPT ![i] =
                      [NoInv EXCEPT !.kind = kind,
                                    !.transcript = transcript,
                                    !.caller = "waiting",
                                    !.pc = CASE IsClaude(kind) -> "acquire"
                                             [] kind = "summarize_file_to_issue" -> "spawn"
                                             [] OTHER -> "validate"]]
    /\ calls' = calls + 1
    /\ UNCHANGED <<sessVars, apiVars, EXEC_LOCK, streamVars, vaultVars>>

\* async with _SESSION_EXEC_LOCK
Acquire(i) ==
    /\ inv[i].pc = "acquire"
    /\ EXEC_LOCK = 0
    /\ EXEC_LOCK' = i
    /\ inv' = [inv EXCEPT ![i].pc = "validate"]
    /\ UNCHANGED <<sessVars, apiVars, calls, streamVars, vaultVars>>

\* the empty-text check, then _build_command_with_session(_resolve_command())
Validate(i) ==
    /\ inv[i].pc = "validate"
    /\ IF Strip(inv[i].transcript) = <<>>
       THEN /\ inv' = [inv EXCEPT ![i].verdict = "validation", ![i].pc = "raise"]
            /\ UNCHANGED sessVars
       ELSE IF IsClaude(inv[i].kind)
       THEN /\ minted < MaxIds
            /\ LET b == _build_command_with_session(_resolve_command, SESSION_STATE,
                                                    now, minted + 1)
               IN  /\ SESSION_STATE' = b.state
                   /\ minted' = IF b.created THEN minted + 1 ELSE minted
                   /\ inv' = [inv EXCEPT ![i].session_id = b.session_id,
                                         ![i].pc = "spawn"]
            /\ UNCHANGED <<settings, now>>
       ELSE /\ inv' = [inv EXCEPT ![i].pc = "spawn"]
            /\ UNCHANGED sessVars
    /\ UNCHANGED <<apiVars, EXEC_LOCK, calls, streamVars, vaultVars>>

\* subprocess.run / create_subprocess_exec raises FileNotFoundError
SpawnNotFound(i) ==
    /\ inv[i].pc = "spawn"
    /\ inv' = [inv EXCEPT ![i].verdict = "not_found",
                          ![i].pc = IF IsClaude(inv[i].kind) THEN "touch" ELSE "raise"]
    /\ UNCHANGED <<sessVars, apiVars, EXEC_LOCK, calls, streamVars, vaultVars>>

\* the child starts; a stream then writes the input to its stdin itself
Spawn(i) ==
    /\ inv[i].pc = "spawn"
    /\ inv' = [inv EXCEPT ![i].child = "running",
                          ![i].pc = IF IsStream(inv[i].kind) THEN "write_stdin" ELSE "wait"]
    /\ UNCHANGED <<sessVars, apiVars, EXEC_LOCK, calls, streamVars, vaultVars>>

\* stdin.write, drain(), close() and wait_closed() return: the readers are
\* started and the consumer loop entered
StdinWritten(i) ==
    /\ inv[i].pc = "write_stdin"
    /\ inv' = [inv EXCEPT ![i].pc = "consume"]
    /\ UNCHANGED <<sessVars, apiVars, EXEC_LOCK, calls, streamVars, vaultVars>>

\* the child has exited with input still unwritten: drain() / wait_closed()
\* raise BrokenPipeError or ConnectionResetError, which no handler of the
\* runner catches
StdinRaises(i) ==
    /\ inv[i].pc = "write_stdin"
    /\ inv[i].child = "exited"
    /\ inv' = [inv EXCEPT ![i].verdict = "broken_pipe", ![i].pc = "raise"]
    /\ UNCHANGED <<sessVars, apiVars, EXEC_LOCK, calls, streamVars, vaultVars>>

\* the child exits by itself, whatever its parent is doing
ChildExit(i) ==
    /\ inv[i].child = "running"
    /\ \E r \in ChildResults :
           inv' = [inv EXCEPT ![i].child = "exited",
                                 ![i].result = IF inv[i].pc = "done" THEN NoResult ELSE r]
    /\ UNCHANGED <<sessVars, apiVars, EXEC_LOCK, calls, streamVars, vaultVars>>

\* the runner's reading of an exited child: non-zero exit, empty output, success
Classify(r) ==
    IF r.returncode # 0 THEN "nonzero"
    ELSE IF Strip(r.stdout) = <<>> THEN "empty"
    ELSE "ok"

\* subprocess.run / the consumer loop and process.wait() / communicate return
Collect(i) ==
    /\ inv[i].pc \in {"wait", "consume"}
    /\ inv[i].child = "exited"
    /\ inv' = [inv EXCEPT ![i].verdict = Classify(inv[i].result),
                          ![i].pc = IF IsClaude(inv[i].kind) THEN "touch" ELSE "raise"]
    /\ UNCHANGED <<sessVars, apiVars, EXEC_LOCK, calls, streamVars, vaultVars>>

\* subprocess.run(timeout=...) expires: it kills the child and waits for it
\* before TimeoutExpired leaves it
RunTimeout(i) ==
    /\ IsBuffered(inv[i].kind)
    /\ inv[i].pc = "wait"
    /\ inv[i].child = "running"
    /\ inv' = [inv EXCEPT ![i].child = "reaped",
                          ![i].verdict = "timeout",
                          ![i].pc = IF IsClaude(inv[i].kind) THEN "touch" ELSE "raise"]
    /\ UNCHANGED <<sessVars, apiVars, EXEC_LOCK, calls, streamVars, vaultVars>>

\* asyncio.timeout / wait_for expires: the handler calls process.kill()
AsyncTimeout(i) ==
    /\ ~IsBuffered(inv[i].kind)
    /\ inv[i].pc \in {"wait", "consume"}
    /\ inv[i].child = "running"
    /\ inv' = [inv EXCEPT ![i].child = "killed",
                          ![i].verdict = "timeout",
                          ![i].pc = "wait_killed"]
    /\ UNCHANGED <<sessVars, apiVars, EXEC_LOCK, calls, streamVars, vaultVars>>

\* the handler raises without awaiting process.wait()
RaiseWithoutWait(i) ==
    /\ inv[i].pc = "wait_killed"
    /\ inv' = [inv EXCEPT ![i].pc = IF IsClaude(inv[i].kind) THEN "touch" ELSE "raise"]
    /\ UNCHANGED <<sessVars, apiVars, EXEC_LOCK, calls, streamVars, vaultVars>>

\* await process.wait() in the timeout handler returns: the child is gone
WaitKilled(i) ==
    /\ inv[i].pc = "wait_killed"
    /\ inv' = [inv EXCEPT ![i].child = "reaped",
                          ![i].pc = IF IsClaude(inv[i].kind) THEN "touch" ELSE "raise"]
    /\ UNCHANGED <<sessVars, apiVars, EXEC_LOCK, calls, streamVars, vaultVars>>

\* _touch_session(session_id, success=...) on the terminal outcome
Touch(i) ==
    /\ inv[i].pc = "touch"
    /\ SESSION_STATE.turns < MaxTurns
    /\ SESSION_STATE' = _touch_session(SESSION_STATE, inv[i].session_id,
                                       inv[i].verdict = "ok", now)
    /\ inv' = [inv EXCEPT ![i].pc = IF inv[i].verdict = "nonzero"
                                    THEN "maybe_reset" ELSE "raise"]
    /\ UNCHANGED <<settings, now, minted, apiVars, EXEC_LOCK, calls, streamVars, vaultVars>>

\* _maybe_reset_session_from_error(session_id, stderr_text) after a non-zero exit
MaybeReset(i) ==
    /\ inv[i].pc = "maybe_reset"
    /\ SESSION_STATE' = _maybe_reset_session_from_error(
                            SESSION_STATE, inv[i].session_id, Strip(inv[i].result.stderr))
    /\ inv' = [inv EXCEPT ![i].pc = "raise"]
    /\ UNCHANGED <<settings, now, minted, apiVars, EXEC_LOCK, calls, streamVars, vaultVars>>

\* an invocation that has ended: its locals are gone, its outcome, its caller
\* and its child remain
Ended(r) ==
    [NoInv EXCEPT !.kind = r.kind, !.pc = "done", !.child = r.child,
                  !.verdict = r.verdict, !.caller = r.caller]

\* the outcome reaches the caller: an error is raised or the result returned;
\* a stream that succeeded yields its done event and stays suspended in the
\* generator. Leaving `async with _SESSION_EXEC_LOCK` releases the lock.
Deliver(i) ==
    /\ inv[i].pc = "raise"
    /\ IF IsStream(inv[i].kind) /\ inv[i].verdict = "ok"
       THEN /\ inv' = [inv EXCEPT ![i].pc = "yielded_done"]
            /\ UNCHANGED EXEC_LOCK
       ELSE /\ inv' = [inv EXCEPT ![i] = Ended(inv[i])]
            /\ EXEC_LOCK' = IF EXEC_LOCK = i /\ inv[i].caller = "waiting"
                            THEN 0 ELSE EXEC_LOCK
    /\ UNCHANGED <<sessVars, apiVars, calls, streamVars, vaultVars>>

\* the consumer asks for the event after done, or closes the generator
Finish(i) ==
    /\ inv[i].pc = "yielded_done"
    /\ inv' = [inv EXCEPT ![i] = Ended(inv[i])]
    /\ EXEC_LOCK' = IF EXEC_LOCK = i THEN 0 ELSE EXEC_LOCK
    /\ UNCHANGED <<sessVars, apiVars, calls, streamVars, vaultVars>>

\* the caller is cancelled while it waits for the lock
CancelWaiting(i) ==
    /\ inv[i].pc = "acquire"
    /\ inv' = [inv EXCEPT ![i].pc = "done", ![i].caller = "cancelled"]
    /\ UNCHANGED <<sessVars, apiVars, EXEC_LOCK, calls, streamVars, vaultVars>>

\* the caller of a buffered runner is cancelled while it awaits
\* asyncio.to_thread: it leaves `async with`, the worker thread runs on
CancelThreaded(i) ==
    /\ IsBuffered(inv[i].kind)
    /\ inv[i].caller = "waiting"
    /\ inv[i].pc \in {"validate", "spawn", "wait", "touch", "maybe_reset", "raise"}
    /\ inv' = [inv EXCEPT ![i].caller = "cancelled"]
    /\ EXEC_LOCK' = IF EXEC_LOCK = i THEN 0 ELSE EXEC_LOCK
    /\ UNCHANGED <<sessVars, apiVars, calls, streamVars, vaultVars>>

\* the consumer of a stream, or the caller of _run_subprocess_once, is
\* cancelled (or abandons the generator) at an await or a yield: the
\* exception leaves the runner through its finally block, which does not
\* touch the child
CancelAsync(i) ==
    /\ ~IsBuffered(inv[i].kind)
    /\ inv[i].pc \in {"write_stdin", "consume", "wait", "wait_killed"}
    /\ inv' = [inv EXCEPT ![i] = Ended([inv[i] EXCEPT !.caller = "cancelled"])]
    /\ EXEC_LOCK' = IF EXEC_LOCK = i THEN 0 ELSE EXEC_LOCK
    /\ UNCHANGED <<sessVars, apiVars, calls, streamVars, vaultVars>>

\* time passes
Clock ==
    /\ now < MaxClock
    /\ now' = now + 1
    /\ UNCHANGED <<SESSION_STATE, settings, minted, apiVars, invVars, streamVars, vaultVars>>

Next ==
    \/ Clock
    \/ \E i \in Procs :
        \/ Call(i)
        \/ Acquire(i)
        \/ Validate(i)
        \/ SpawnNotFound(i)
        \/ Spawn(i)
        \/ StdinWritten(i)
        \/ StdinRaises(i)
        \/ ChildExit(i)
        \/ Collect(i)
        \/ RunTimeout(i)
        \/ AsyncTimeout(i)
        \/ WaitKilled(i)
        \/ Touch(i)
        \/ MaybeReset(i)
        \/ Deliver(i)
        \/ Finish(i)
        \/ CancelWaiting(i)
        \/ CancelThreaded(i)
        \/ CancelAsync(i)

Spec == Init /\ [][Next]_vars

\* the children of the session-capable agent that are alive
ClaudeChildren ==
    {i \in Procs : IsClaude(inv[i].kind) /\ inv[i].child \in {"running", "killed"}}

\* C1: over every interleaving of generate_with_claude_cli and
\* stream_claude_cli calls, callers that fail, time out or are cancelled
\* included, at most one subprocess of the session-capable agent is running.
C1_OneChildAtATime == Cardinality(ClaudeChildren) <= 1

\* the stderr text names a session and says not found or invalid, in any case
SessionVocabulary(text) ==
    /\ \E k \in 1..Len(text) : LowerTok(text[k]) = "session"
    /\ \E k \in 1..Len(text) : LowerTok(text[k]) \in {"not found", "invalid"}

\* C4: an invocation carrying the current session id that ends with a
\* non-zero exit code fails with the non-zero-exit error; its failed touch
\* leaves the id in place; then, if its stderr has the session vocabulary and
\* a not-found/invalid indicator the slot is cleared, and otherwise the id
\* stays; a lease() over a cleared slot mints a new id.
C4_ErrorReset ==
    [][\A i \in Procs :
        LET carries == inv[i].session_id # NoId /\ inv[i].session_id = SESSION_STATE.id
        IN  /\ (inv[i].pc \in {"wait", "consume"} /\ inv'[i].pc = "touch"
                  /\ inv[i].child = "exited" /\ inv[i].result.returncode # 0)
                  => inv'[i].verdict = "nonzero"
            /\ (inv[i].pc = "touch" /\ inv'[i].pc # "touch"
                  /\ inv[i].verdict = "nonzero" /\ carries)
                  => /\ inv'[i].pc = "maybe_reset"
                     /\ SESSION_STATE'.id = SESSION_STATE.id
            /\ (inv[i].pc = "maybe_reset" /\ inv'[i].pc # "maybe_reset" /\ carries)
                  => /\ inv'[i].pc = "raise"
                     /\ inv'[i].verdict = "nonzero"
                     /\ IF SessionVocabulary(inv[i].result.stderr)
                        THEN SESSION_STATE' = EmptySession
                        ELSE SESSION_STATE'.id = SESSION_STATE.id
            /\ (inv[i].pc = "raise" /\ inv'[i].pc = "done")
                  => inv'[i].verdict = inv[i].verdict
            /\ (inv[i].pc = "validate" /\ inv'[i].pc = "spawn"
                  /\ SESSION_STATE.id = NoId /\ inv'[i].session_id # NoId)
                  => /\ inv'[i].session_id = minted + 1
                     /\ SESSION_STATE'.id = minted + 1
                     /\ minted' = minted + 1
    ]_vars

\* exit code 2 with "Error Session Not Found" on stderr has cleared the slot,
\* and the invocation is about to raise its non-zero-exit error
C4_Witness ==
    \E i \in Procs :
        /\ inv[i].pc = "raise"
        /\ inv[i].verdict = "nonzero"
        /\ inv[i].session_id # NoId
        /\ inv[i].result.returncode = 2
        /\ SessionVocabulary(inv[i].result.stderr)
        /\ SESSION_STATE = EmptySession

\* C5: an invocation whose source text is empty or whitespace only fails with
\* the input-validation error, spawns no subprocess and leaves the session
\* slot alone, in every runner and for every caller, the watch pipeline's
\* summarize_file_to_issue included.
C5_EmptySourceNeverSpawns ==
    \A i \in Procs :
        (inv[i].pc \notin {"idle", "done"} /\ Strip(inv[i].transcript) = <<>>)
            => /\ inv[i].child = "none"
               /\ inv[i].session_id = NoId
               /\ inv[i].verdict \in {"none", "validation"}

\* C8: in every runner a timeout error reaches the caller only after the
\* child has been killed and its exit awaited.
C8_KilledBeforeTimeoutError ==
    \A i \in Procs :
        (inv[i].pc = "done" /\ inv[i].verdict = "timeout" /\ inv[i].caller = "waiting")
            => inv[i].child = "reaped"

\* a streaming or _run_subprocess_once invocation has raised its timeout error
C8_Witness ==
    \E i \in Procs :
        /\ inv[i].pc = "done"
        /\ inv[i].verdict = "timeout"
        /\ inv[i].caller = "waiting"
        /\ ~IsBuffered(inv[i].kind)
        /\ inv[i].child = "reaped"

----------------------------------------------------------------------------
\* SpecStream: _stream_claude_cli_locked (stream_codex_cli is the same code
\* without the session calls) with its child, at the level of the three
\* pipes, the two _pump tasks, the queue and the asyncio.timeout scope. The
\* source text is not empty here (Validate in Spec has the empty case), and
\* every line the child writes is shorter than the StreamReader limit.

\* bytes a pipe holds before a write to it blocks (OS pipe and reader buffer)
PipeCap == 1
\* bytes the stdin pipe holds before the parent's write to it blocks
StdinCap == 1
\* the encoded full_input is 1..MaxIn bytes long
MaxIn == 2
\* the child writes at most MaxOut bytes to stdout
MaxOut == 3

\* bytes the child may write to stdout: a letter, the two line ends, and a
\* byte that is not valid UTF-8
OutBytes == {"a", "\n", "\r", "0xFF"}

RECURSIVE TextsUpTo(_, _)
TextsUpTo(alphabet, n) ==
    IF n = 0 THEN {<<>>}
    ELSE LET shorter == TextsUpTo(alphabet, n - 1)
         IN  shorter \cup {Append(t, b) : t \in shorter, b \in alphabet}

OutTexts == TextsUpTo(OutBytes, MaxOut)

\* what the child may write to stderr
ErrTexts == {<<>>, <<"warn", "\n">>, <<"Session", "Not Found">>}

\* bytes.decode("utf-8", errors="replace")
DecodeReplace(bytes) ==
    [k \in 1..Len(bytes) |-> IF bytes[k] = "0xFF" THEN "U+FFFD" ELSE bytes[k]]

\* the text-mode decoding of subprocess.run(text=True): strict UTF-8
Decodable(bytes) == \A k \in 1..Len(bytes) : bytes[k] # "0xFF"

\* and its universal newlines: \r\n and \r are read as \n
RECURSIVE UniversalNewlines(_)
UniversalNewlines(text) ==
    IF text = <<>> THEN <<>>
    ELSE IF Head(text) = "\r"
    THEN IF Len(text) > 1 /\ text[2] = "\n"
         THEN <<"\n">> \o UniversalNewlines(Tail(Tail(text)))
         ELSE <<"\n">> \o UniversalNewlines(Tail(text))
    ELSE <<Head(text)>> \o UniversalNewlines(Tail(text))

\* run_claude / run_codex on a child that exits 0 having written these stdout
\* bytes: the output it returns, or the error it raises
run_claude(stdout_bytes) ==
    IF ~Decodable(stdout_bytes) THEN [raised |-> "UnicodeDecodeError", output |-> <<>>]
    ELSE LET output == Strip(UniversalNewlines(stdout_bytes))
         IN  IF output = <<>> THEN [raised |-> "empty", output |-> <<>>]
             ELSE [raised |-> "none", output |-> output]

\* index of the first "\n" of buf, 0 when it has none
RECURSIVE NewlineAt(_, _)
NewlineAt(buf, k) ==
    IF k > Len(buf) THEN 0
    ELSE IF buf[k] = "\n" THEN k
    ELSE NewlineAt(buf, k + 1)

\* StreamReader.readline() called until it would wait: the whole lines of
\* buf, each with its "\n", and the bytes after the last of them
RECURSIVE readline(_)
readline(buf) ==
    LET k == NewlineAt(buf, 1)
    IN  IF k = 0 THEN [lines |-> <<>>, rest |-> buf]
        ELSE LET more == readline(SubSeq(buf, k + 1, Len(buf)))
             IN  [lines |-> <<SubSeq(buf, 1, k)>> \o more.lines, rest |-> more.rest]

\* {"type": "chunk", "channel": ..., "text": ...}
ChunkEvent(channel, line) ==
    [type |-> "chunk", channel |-> channel, text |-> DecodeReplace(line)]
\* {"type": "eof", "channel": ...}
EofEvent(channel) == [type |-> "eof", channel |-> channel, text |-> <<>>]
\* {"type": "done", "result": ...}
DoneEvent(output) == [type |-> "done", channel |-> "", text |-> output]

RECURSIVE ChunkEvents(_, _)
ChunkEvents(channel, lines) ==
    IF lines = <<>> THEN <<>>
    ELSE <<ChunkEvent(channel, Head(lines))>> \o ChunkEvents(channel, Tail(lines))

\* "".join(...) of the texts of the events of one channel
RECURSIVE JoinChannel(_, _)
JoinChannel(events, channel) ==
    IF events = <<>> THEN <<>>
    ELSE (IF Head(events).type = "chunk" /\ Head(events).channel = channel
          THEN Head(events).text ELSE <<>>) \o JoinChannel(Tail(events), channel)

StreamSettings ==
    [claude_cli_session_idle_sec  |-> 0,
     claude_cli_session_max_turns |-> TurnLimit,
     claude_cli_reuse_session     |-> TRUE,
     claude_cli_command           |-> <<"claude">>]

StreamInit ==
    /\ SessionInit
    /\ settings = StreamSettings
    /\ ApiIdle
    /\ InvIdle
    /\ st = NoStream
    /\ queue = <<>>
    /\ delivered = <<>>
    /\ pump = [c \in Channels |-> "none"]
    /\ acc = [c \in Channels |-> <<>>]
    /\ pipe = [c \in Channels |-> <<>>]
    /\ \E n \in 1..MaxIn : stdin = [left |-> n, pipe |-> 0]
    /\ \E o \in OutTexts, e \in ErrTexts :
           proc = [NoProc EXCEPT !.todo = [c \in Channels |->
                                              IF c = "stdout" THEN o ELSE e],
                                 !.out = o,
                                 !.err = e]
    /\ VaultIdle

\* the frame of the steps of the stream that leave the session alone
StreamFrame == UNCHANGED <<sessVars, apiVars, invVars, vaultVars>>

\* _build_command_with_session(_resolve_command())
StreamBuild ==
    /\ st.pc = "start"
    /\ minted < MaxIds
    /\ LET b == _build_command_with_session(_resolve_command, SESSION_STATE,
                                            now, minted + 1)
       IN  /\ SESSION_STATE' = b.state
           /\ minted' = IF b.created THEN minted + 1 ELSE minted
           /\ st' = [st EXCEPT !.session_id = b.session_id, !.pc = "spawn"]
    /\ UNCHANGED <<settings, now, apiVars, invVars, vaultVars>>
    /\ UNCHANGED <<queue, delivered, pump, acc, pipe, stdin, proc>>

\* create_subprocess_exec raises FileNotFoundError
StreamSpawnNotFound ==
    /\ st.pc = "spawn"
    /\ SESSION_STATE' = _touch_session(SESSION_STATE, st.session_id, FALSE, now)
    /\ st' = [st EXCEPT !.outcome = "not_found", !.pc = "end"]
    /\ UNCHANGED <<settings, now, minted, apiVars, invVars, vaultVars>>
    /\ UNCHANGED <<queue, delivered, pump, acc, pipe, stdin, proc>>

\* create_subprocess_exec returns; process.stdin.write(full_input) follows
StreamSpawn ==
    /\ st.pc = "spawn"
    /\ proc' = [proc EXCEPT !.state = "running"]
    /\ st' = [st EXCEPT !.pc = "write_stdin"]
    /\ StreamFrame
    /\ UNCHANGED <<queue, delivered, pump, acc, pipe, stdin>>

\* the transport moves a byte of the input into the stdin pipe
StdinWrite ==
    /\ st.pc = "write_stdin"
    /\ stdin.left > 0
    /\ stdin.pipe < StdinCap
    /\ proc.state = "running"
    /\ stdin' = [left |-> stdin.left - 1, pipe |-> stdin.pipe + 1]
    /\ StreamFrame
    /\ UNCHANGED <<st, queue, delivered, pump, acc, pipe, proc>>

\* the child is gone with input still unwritten: drain() / wait_closed()
\* raise BrokenPipeError or ConnectionResetError, outside every try block
StdinBroken ==
    /\ st.pc = "write_stdin"
    /\ stdin.left > 0
    /\ proc.state = "exited"
    /\ st' = [st EXCEPT !.outcome = "broken_pipe", !.pc = "end"]
    /\ StreamFrame
    /\ UNCHANGED <<queue, delivered, pump, acc, pipe, stdin, proc>>

\* the input is written: stdin.close() and wait_closed() return, the two
\* _pump tasks are created and the asyncio.timeout scope is entered
StartReaders ==
    /\ st.pc = "write_stdin"
    /\ stdin.left = 0
    /\ pump' = [c \in Channels |-> "reading"]
    /\ st' = [st EXCEPT !.timer = "armed", !.pc = "consume"]
    /\ StreamFrame
    /\ UNCHANGED <<queue, delivered, acc, pipe, stdin, proc>>

\* ---- the child

ChildReadStdin ==
    /\ proc.state = "running"
    /\ stdin.pipe > 0
    /\ stdin' = [stdin EXCEPT !.pipe = 0]
    /\ StreamFrame
    /\ UNCHANGED <<st, queue, delivered, pump, acc, pipe, proc>>

\* write(2) of the next byte; it blocks while the pipe is full
ChildWrite(c) ==
    /\ proc.state = "running"
    /\ proc.open[c]
    /\ proc.todo[c] # <<>>
    /\ Len(pipe[c]) < PipeCap
    /\ pipe' = [pipe EXCEPT ![c] = Append(@, Head(proc.todo[c]))]
    /\ proc' = [proc EXCEPT !.todo[c] = Tail(@)]
    /\ StreamFrame
    /\ UNCHANGED <<st, queue, delivered, pump, acc, stdin>>

ChildClose(c) ==
    /\ proc.state = "running"
    /\ proc.open[c]
    /\ proc.todo[c] = <<>>
    /\ proc' = [proc EXCEPT !.open[c] = FALSE]
    /\ StreamFrame
    /\ UNCHANGED <<st, queue, delivered, pump, acc, pipe, stdin>>

\* the child exits once it has written what it had to write
ChildExits ==
    /\ proc.state = "running"
    /\ \A c \in Channels : proc.todo[c] = <<>>
    /\ \E rc \in {0, 2} :
           proc' = [proc EXCEPT !.state = "exited", !.returncode = rc,
                                !.open = [c \in Channels |-> FALSE]]
    /\ StreamFrame
    /\ UNCHANGED <<st, queue, delivered, pump, acc, pipe, stdin>>

\* ---- the two readers

\* _pump: readline() returns every whole line that has arrived
PumpReadline(c) ==
    /\ pump[c] = "reading"
    /\ pipe[c] # <<>>
    /\ LET r == readline(acc[c] \o pipe[c])
       IN  /\ queue' = queue \o ChunkEvents(c, r.lines)
           /\ acc' = [acc EXCEPT ![c] = r.rest]
    /\ pipe' = [pipe EXCEPT ![c] = <<>>]
    /\ StreamFrame
    /\ UNCHANGED <<st, delivered, pump, stdin, proc>>

\* _pump dropping an unterminated last line at end of file
PumpEofDropsPartial(c) ==
    /\ pump[c] = "reading"
    /\ pipe[c] = <<>>
    /\ ~proc.open[c]
    /\ queue' = Append(queue, EofEvent(c))
    /\ acc' = [acc EXCEPT ![c] = <<>>]
    /\ pump' = [pump EXCEPT ![c] = "done"]
    /\ StreamFrame
    /\ UNCHANGED <<st, delivered, pipe, stdin, proc>>

\* _pump at end of file: readline() returns the unterminated rest, if any,
\* then b""; the loop breaks and the eof marker is queued
PumpEof(c) ==
    /\ pump[c] = "reading"
    /\ pipe[c] = <<>>
    /\ ~proc.open[c]
    /\ queue' = queue \o (IF acc[c] # <<>> THEN <<ChunkEvent(c, acc[c])>> ELSE <<>>)
                      \o <<EofEvent(c)>>
    /\ acc' = [acc EXCEPT ![c] = <<>>]
    /\ pump' = [pump EXCEPT ![c] = "done"]
    /\ StreamFrame
    /\ UNCHANGED <<st, delivered, pipe, stdin, proc>>

\* ---- the consumer loop

\* the loop body yielding the eof markers too
ConsumeYieldsEof ==
    /\ st.pc = "consume"
    /\ queue # <<>>
    /\ LET event == Head(queue)
       IN  /\ st' = IF event.type = "eof"
                    THEN [st EXCEPT !.eof_count = @ + 1,
                                    !.pc = IF st.eof_count + 1 = 2
                                           THEN "wait_exit" ELSE "consume"]
                    ELSE IF event.channel = "stdout"
                    THEN [st EXCEPT !.stdout_chunks = @ \o event.text]
                    ELSE [st EXCEPT !.stderr_chunks = @ \o event.text]
           /\ delivered' = Append(delivered, event)
    /\ queue' = Tail(queue)
    /\ StreamFrame
    /\ UNCHANGED <<pump, acc, pipe, stdin, proc>>

\* the loop written `while eof_count < 1`: it ends at the first eof marker
ConsumeLeavesAtFirstEof ==
    /\ st.pc = "consume"
    /\ queue # <<>>
    /\ LET event == Head(queue)
       IN  IF event.type = "eof"
           THEN /\ st' = [st EXCEPT !.eof_count = @ + 1, !.pc = "wait_exit"]
                /\ UNCHANGED delivered
           ELSE /\ st' = IF event.channel = "stdout"
                         THEN [st EXCEPT !.stdout_chunks = @ \o event.text]
                         ELSE [st EXCEPT !.stderr_chunks = @ \o event.text]
                /\ delivered' = Append(delivered, event)
    /\ queue' = Tail(queue)
    /\ StreamFrame
    /\ UNCHANGED <<pump, acc, pipe, stdin, proc>>

\* event = await queue.get() and the loop body: an eof marker is counted, a
\* chunk is kept and yielded; after the second eof the loop ends
ConsumeEvent ==
    /\ st.pc = "consume"
    /\ queue # <<>>
    /\ LET event == Head(queue)
       IN  IF event.type = "eof"
           THEN /\ st' = [st EXCEPT !.eof_count = @ + 1,
                                    !.pc = IF st.eof_count + 1 = 2
                                           THEN "wait_exit" ELSE "consume"]
                /\ UNCHANGED delivered
           ELSE /\ st' = IF event.channel = "stdout"
                         THEN [st EXCEPT !.stdout_chunks = @ \o event.text]
                         ELSE [st EXCEPT !.stderr_chunks = @ \o event.text]
                /\ delivered' = Append(delivered, event)
    /\ queue' = Tail(queue)
    /\ StreamFrame
    /\ UNCHANGED <<pump, acc, pipe, stdin, proc>>

\* returncode = await process.wait(); the timeout scope is left
WaitExit ==
    /\ st.pc = "wait_exit"
    /\ proc.state # "running"
    /\ st' = [st EXCEPT !.returncode = proc.returncode, !.timer = "off",
                        !.pc = "finally"]
    /\ StreamFrame
    /\ UNCHANGED <<queue, delivered, pump, acc, pipe, stdin, proc>>

\* the deadline passes while the generator is suspended inside the scope, at
\* queue.get() or process.wait(): TimeoutError, then process.kill()
TimeoutExpires ==
    /\ st.timer = "armed"
    /\ \/ st.pc = "consume" /\ queue = <<>>
       \/ st.pc = "wait_exit" /\ proc.state = "running"
    /\ proc' = IF proc.state = "running"
               THEN [proc EXCEPT !.state = "killed", !.returncode = -9,
                                 !.open = [c \in Channels |-> FALSE]]
               ELSE proc
    /\ st' = [st EXCEPT !.timer = "fired", !.pc = "wait_killed"]
    /\ StreamFrame
    /\ UNCHANGED <<queue, delivered, pump, acc, pipe, stdin>>

\* await process.wait() in the handler, then _touch_session(success=False)
StreamWaitKilled ==
    /\ st.pc = "wait_killed"
    /\ proc.state # "running"
    /\ SESSION_STATE' = _touch_session(SESSION_STATE, st.session_id, FALSE, now)
    /\ st' = [st EXCEPT !.pc = "finally"]
    /\ UNCHANGED <<settings, now, minted, apiVars, invVars, vaultVars>>
    /\ UNCHANGED <<queue, delivered, pump, acc, pipe, stdin, proc>>

\* the consumer is cancelled while the generator awaits queue.get() or
\* process.wait(), or it closes the generator suspended at a yield:
\* CancelledError or GeneratorExit is thrown into the try block, which no
\* except clause of the runner catches
StreamAbandoned ==
    /\ st.pc \in {"consume", "wait_exit", "wait_killed"}
    /\ st' = [st EXCEPT !.abandoned = TRUE, !.timer = "off", !.pc = "finally"]
    /\ StreamFrame
    /\ UNCHANGED <<queue, delivered, pump, acc, pipe, stdin, proc>>

\* the finally block leaving the reader tasks alone
FinallyLeavesReaders ==
    /\ st.pc = "finally"
    /\ st' = IF st.abandoned
             THEN [st EXCEPT !.outcome = "abandoned", !.pc = "end"]
             ELSE IF st.timer = "fired"
             THEN [st EXCEPT !.outcome = "timeout", !.pc = "end"]
             ELSE [st EXCEPT !.pc = "check"]
    /\ StreamFrame
    /\ UNCHANGED <<queue, delivered, pump, acc, pipe, stdin, proc>>

\* finally: both tasks cancelled and gathered; the exception on its way, if
\* any (the timeout error, the consumer's cancellation), now leaves the runner
StreamFinally ==
    /\ st.pc = "finally"
    /\ pump' = [c \in Channels |-> IF pump[c] = "reading" THEN "cancelled" ELSE pump[c]]
    /\ st' = IF st.abandoned
             THEN [st EXCEPT !.outcome = "abandoned", !.pc = "end"]
             ELSE IF st.timer = "fired"
             THEN [st EXCEPT !.outcome = "timeout", !.pc = "end"]
             ELSE [st EXCEPT !.pc = "check"]
    /\ StreamFrame
    /\ UNCHANGED <<queue, delivered, acc, pipe, stdin, proc>>

\* after the scope: non-zero exit, empty output, or the done event
StreamCheck ==
    /\ st.pc = "check"
    /\ LET verdict == Classify([returncode |-> st.returncode,
                                stdout     |-> st.stdout_chunks,
                                stderr     |-> st.stderr_chunks])
           touched == _touch_session(SESSION_STATE, st.session_id, verdict = "ok", now)
       IN  /\ SESSION_STATE' =
                  IF verdict = "nonzero"
                  THEN _maybe_reset_session_from_error(touched, st.session_id,
                                                       Strip(st.stderr_chunks))
                  ELSE touched
           /\ delivered' = IF verdict = "ok"
                           THEN Append(delivered, DoneEvent(Strip(st.stdout_chunks)))
                           ELSE delivered
           /\ st' = [st EXCEPT !.outcome = verdict, !.pc = "end"]
    /\ UNCHANGED <<settings, now, minted, apiVars, invVars, vaultVars>>
    /\ UNCHANGED <<queue, pump, acc, pipe, stdin, proc>>

StreamNext ==
    \/ StreamBuild
    \/ StreamSpawnNotFound
    \/ StreamSpawn
    \/ StdinWrite
    \/ StdinBroken
    \/ StartReaders
    \/ ChildReadStdin
    \/ ChildExits
    \/ \E c \in Channels :
        \/ ChildWrite(c)
        \/ ChildClose(c)
        \/ PumpReadline(c)
        \/ PumpEof(c)
    \/ ConsumeEvent
    \/ WaitExit
    \/ TimeoutExpires
    \/ StreamWaitKilled
    \/ StreamFinally
    \/ StreamCheck

SpecStream == StreamInit /\ [][StreamNext]_vars

\* SpecAbandon: the same invocation with a consumer that may leave at any
\* suspension point of the try block, for a child that writes no line, one
\* line, or a line and an unterminated rest to stdout
AbandonOutTexts == {<<>>, <<"a", "\n">>, <<"a", "\n", "a">>}

AbandonInit ==
    /\ StreamInit
    /\ proc.out \in AbandonOutTexts

AbandonNext ==
    \/ StreamNext
    \/ StreamAbandoned

SpecAbandon == AbandonInit /\ [][AbandonNext]_vars

\* the last event the consumer received
LastDelivered == delivered[Len(delivered)]

DoneDelivered == delivered # <<>> /\ LastDelivered.type = "done"

\* C6: the consumer of a streaming invocation sees chunk events only, then at
\* most one terminal outcome: a done event, which comes last, carries the
\* whole stdout and is delivered only after exit code 0 with non-empty
\* stdout and no timeout, or a raised error with no done event; eof markers
\* are never delivered, and nothing is delivered after the terminal outcome.
C6_ChunksThenOneTerminal ==
    /\ [](/\ \A k \in 1..Len(delivered) : delivered[k].type \in {"chunk", "done"}
          /\ \A k \in 1..(Len(delivered) - 1) : delivered[k].type = "chunk"
          /\ DoneDelivered <=> st.outcome = "ok"
          /\ st.outcome # "none" => st.pc = "end"
          /\ DoneDelivered =>
                /\ proc.state = "exited"
                /\ proc.returncode = 0
                /\ st.timer # "fired"
                /\ Strip(DecodeReplace(proc.out)) # <<>>
                /\ LastDelivered.text = Strip(DecodeReplace(proc.out)))
    /\ [][st.outcome # "none" =>
             (delivered' = delivered /\ st'.outcome = st.outcome)]_vars

\* a done event after chunks of both channels
C6_Witness ==
    /\ DoneDelivered
    /\ \E k \in 1..Len(delivered) : delivered[k].channel = "stdout"
    /\ \E k \in 1..Len(delivered) : delivered[k].channel = "stderr"

\* C7 as stated: when the stream delivers done, the concatenation of its
\* stdout chunk texts is the stdout run_claude returns for the same child,
\* and is the result the done event carries.
C7_ConcatEqualsBuffered ==
    DoneDelivered =>
        LET concat   == JoinChannel(delivered, "stdout")
            buffered == run_claude(proc.out)
        IN  /\ buffered.raised = "none" => concat = buffered.output
            /\ concat = LastDelivered.text

\* C7, amended: the result of the done event is the concatenation trimmed of
\* leading and trailing whitespace; when run_claude returns for the same
\* child, its stdout is the concatenation with line ends read as \n and then
\* trimmed, which is the done result when the child wrote no carriage return.
C7_TrimmedConcatEqualsBuffered ==
    DoneDelivered =>
        LET concat   == JoinChannel(delivered, "stdout")
            buffered == run_claude(proc.out)
        IN  /\ LastDelivered.text = Strip(concat)
            /\ buffered.raised = "none" =>
                   buffered.output = Strip(UniversalNewlines(concat))
            /\ (buffered.raised = "none" /\ ~Contains(proc.out, "\r")) =>
                   buffered.output = LastDelivered.text

\* a done event after two stdout chunks whose concatenation had to be trimmed
C7_Witness ==
    /\ DoneDelivered
    /\ run_claude(proc.out).raised = "none"
    /\ Len(delivered) >= 3
    /\ delivered[1].channel = "stdout"
    /\ delivered[2].channel = "stdout"
    /\ JoinChannel(delivered, "stdout") # LastDelivered.text

\* the generator is suspended until the child acts: the stdin pipe is full
\* with input left to write, the queue is empty, or the child has not exited
SuspendedOnChild ==
    \/ st.pc = "write_stdin" /\ stdin.left > 0 /\ stdin.pipe = StdinCap
    \/ st.pc = "consume" /\ queue = <<>>
    \/ st.pc = "wait_exit" /\ proc.state = "running"

\* C9: in every phase from spawn to exit (writing stdin, draining output,
\* awaiting the exit code) the one timeout is armed whenever the invocation
\* is suspended on its child, so that a child that never reads its stdin or
\* never closes its output ends in the kill and the timeout error.
C9_TimeoutCoversEveryPhase ==
    (proc.state = "running" /\ SuspendedOnChild) => st.timer = "armed"

\* the child's next write to channel c blocks: its pipe is full
WriteBlocks(c) ==
    /\ proc.state = "running"
    /\ proc.todo[c] # <<>>
    /\ Len(pipe[c]) >= PipeCap

\* C10: a streaming invocation never deadlocks on its pipes: whenever the
\* child is blocked writing to a full output pipe and the parent is
\* suspended on another channel, a reader is draining the full pipe.
C10_NeverDeadlocks ==
    \A c \in Channels :
        (WriteBlocks(c) /\ SuspendedOnChild) => pump[c] = "reading"

----------------------------------------------------------------------------
\* CandidateScanner (ai.py): _scan_watch_candidates over a tree given as the
\* set of the paths of its files, relative to the root

\* name.startswith(".")
IsHidden(name) == name # <<>> /\ Head(name) = "."

\* name.rfind("."), counting from 1; 0 when there is none
RECURSIVE LastDot(_, _)
LastDot(name, k) ==
    IF k = 0 THEN 0
    ELSE IF name[k] = "." THEN k
    ELSE LastDot(name, k - 1)

\* Path(name).suffix
Suffix(name) ==
    LET k == LastDot(name, Len(name))
    IN  IF k > 1 /\ k < Len(name) THEN SubSeq(name, k, Len(name)) ELSE <<>>

AUTO_WATCH_EXTENSIONS == {<<".", "md">>, <<".", "txt">>}
AUTO_WATCH_EXCLUDED_DIR_NAMES == {<<".", "git">>, <<"__pycache__">>, <<"issues">>}

\* the excluded set of a scan: the fixed names and the configured output
\* folder, lower-cased
Excluded(issue_folder) ==
    {Lower(name) : name \in AUTO_WATCH_EXCLUDED_DIR_NAMES}
        \cup (IF Lower(Strip(issue_folder)) # <<>>
              THEN {Lower(Strip(issue_folder))} ELSE {})

\* the checks made on one file of the walk
Candidate(p, excluded) ==
    /\ ~IsHidden(p[Len(p)])
    /\ Lower(Suffix(p[Len(p)])) \in AUTO_WATCH_EXTENSIONS
    /\ \A k \in 1..(Len(p) - 1) : Lower(p[k]) \notin excluded

\* os.walk that descends into every directory (dirs[:] left as it is)
RECURSIVE walk_without_pruning(_, _, _)
walk_without_pruning(files, top, excluded) ==
    LET inside == {p \in files : Len(p) > Len(top) /\ SubSeq(p, 1, Len(top)) = top}
        here   == {p \in inside : Len(p) = Len(top) + 1}
        dirs   == {p[Len(top) + 1] : p \in {q \in inside : Len(q) > Len(top) + 1}}
    IN  {p \in here : Candidate(p, excluded)}
            \cup UNION {walk_without_pruning(files, Append(top, d), excluded) : d \in dirs}

\* the os.walk loop from directory top down: hidden and excluded directories
\* are pruned before descending
RECURSIVE walk(_, _, _)
walk(files, top, excluded) ==
    LET inside == {p \in files : Len(p) > Len(top) /\ SubSeq(p, 1, Len(top)) = top}
        here   == {p \in inside : Len(p) = Len(top) + 1}
        dirs   == {p[Len(top) + 1] : p \in {q \in inside : Len(q) > Len(top) + 1}}
        kept   == {d \in dirs : ~IsHidden(d) /\ Lower(d) \notin excluded}
    IN  {p \in here : Candidate(p, excluded)}
            \cup UNION {walk(files, Append(top, d), excluded) : d \in kept}

\* _scan_watch_candidates on a root that is tree, under the configured
\* output folder
scan(tree, issue_folder) ==
    IF tree.kind # "dir" THEN {}
    ELSE walk(tree.files, <<>>, Excluded(issue_folder))

_scan_watch_candidates(vault) == scan(fs[vault], watch_config.issue_folder)

\* SpecScan: a tree, an output folder, and scans of them

ScanPaths ==
    {<< <<"a", ".", "md">> >>,
     << <<"NOTES", ".", "TXT">> >>,
     << <<"pic", ".", "png">> >>,
     << <<"README">> >>,
     << <<".", "hidden", ".", "md">> >>,
     << <<"team">>, <<"c", ".", "md">> >>,
     << <<".", "git">>, <<"d", ".", "md">> >>,
     << <<".", "obsidian">>, <<"g", ".", "md">> >>,
     << <<"team">>, <<"Issues">>, <<"e", ".", "md">> >>,
     << <<"Out">>, <<"f", ".", "md">> >>}

IssueFolders == {DefaultIssueFolder, <<" ", "Out">>, <<"out", "/", "sub">>}

ScanInit ==
    /\ SessionInit
    /\ settings = StreamSettings
    /\ ApiIdle
    /\ InvIdle
    /\ StreamIdle
    /\ AUTO_WATCH_STATE = WatchStateInit(FALSE)
    /\ \E folder \in IssueFolders :
           watch_config = [vault_path         |-> "/vaultA",
                           auto_watch_enabled |-> FALSE,
                           issue_folder       |-> folder]
    /\ \E kind \in {"dir", "file", "missing"}, files \in SUBSET ScanPaths :
           fs = [r \in Roots |-> IF r = "/vaultA"
                                 THEN [kind |-> kind, files |-> files]
                                 ELSE [kind |-> "dir", files |-> {}]]
    /\ loop = NoLoop
    /\ watch_log = NoWatchLog
    /\ save_log = <<>>
    /\ probe = NoProbe

ProbeFrame ==
    UNCHANGED <<sessVars, apiVars, invVars, streamVars,
                AUTO_WATCH_STATE, watch_config, fs, loop, watch_log, save_log>>

\* _scan_watch_candidates(get_vault_path())
ScanCall ==
    /\ probe.op = "none"
    /\ probe' = [op |-> "scan", out |-> _scan_watch_candidates(watch_config.vault_path)]
    /\ ProbeFrame

\* a second scan, nothing having changed
ScanAgain ==
    /\ probe.op = "scan"
    /\ probe' = [op |-> "rescan", first |-> probe.out,
                 out |-> _scan_watch_candidates(watch_config.vault_path)]
    /\ ProbeFrame

ScanNext == ScanCall \/ ScanAgain

SpecScan == ScanInit /\ [][ScanNext]_vars

\* the tree scanned and the excluded set in force
ScannedTree == fs[watch_config.vault_path]
ExcludedNow == Excluded(watch_config.issue_folder)

\* C19: every path the scanner returns is a file of the tree with an
\* eligible extension, is not a hidden file, and has no ancestor directory
\* that is hidden or whose lower-cased name is excluded (the configured
\* output folder included); a root that is missing or not a directory gives
\* the empty set.
C19_ScannerFilters ==
    probe.op = "scan" =>
        /\ ScannedTree.kind # "dir" => probe.out = {}
        /\ \A p \in probe.out :
              /\ p \in ScannedTree.files
              /\ p[Len(p)][1] # "."
              /\ \E ext \in {"md", "txt"} :
                     /\ Len(p[Len(p)]) >= 3
                     /\ p[Len(p)][Len(p[Len(p)]) - 1] = "."
                     /\ LowerTok(p[Len(p)][Len(p[Len(p)])]) = ext
              /\ \A k \in 1..(Len(p) - 1) :
                     /\ p[k][1] # "."
                     /\ Lower(p[k]) \notin ExcludedNow

\* a scan that returned something of a tree holding a file under .git, one
\* under .obsidian, one under Issues and one under the configured output
\* folder
C19_Witness ==
    /\ probe.op = "scan"
    /\ probe.out # {}
    /\ << <<".", "git">>, <<"d", ".", "md">> >> \in ScannedTree.files
    /\ << <<".", "obsidian">>, <<"g", ".", "md">> >> \in ScannedTree.files
    /\ << <<"team">>, <<"Issues">>, <<"e", ".", "md">> >> \in ScannedTree.files
    /\ << <<"Out">>, <<"f", ".", "md">> >> \in ScannedTree.files
    /\ <<"out">> \in ExcludedNow

----------------------------------------------------------------------------
\* SpecResolve: the two command resolvers on configured commands of up to
\* MaxArgv tokens, and on their own results

MaxArgv == 3

ArgvTokens ==
    {"claude", "/usr/bin/claude", "Claude", "npx", "codex", "/opt/bin/codex",
     "-p", "--print", "mcp", "exec", "--model"}

ConfiguredCommands == TextsUpTo(ArgvTokens, MaxArgv)

ResolveInit ==
    /\ SessionInit
    /\ \E command \in ConfiguredCommands :
           settings = [claude_cli_session_idle_sec  |-> 0,
                       claude_cli_session_max_turns |-> TurnLimit,
                       claude_cli_reuse_session     |-> TRUE,
                       claude_cli_command           |-> command,
                       codex_cli_command            |-> command]
    /\ ApiIdle
    /\ InvIdle
    /\ StreamIdle
    /\ VaultIdle

\* claude_cli_service._resolve_command(), then the same on its result
ResolveClaude ==
    /\ probe.op # "resolve_claude"
    /\ probe' = [op        |-> "resolve_claude",
                 configured |-> settings.claude_cli_command,
                 out       |-> resolve_claude(settings.claude_cli_command),
                 again     |-> resolve_claude(resolve_claude(settings.claude_cli_command))]
    /\ ProbeFrame

\* codex_cli_service._resolve_command(), then the same on its result
ResolveCodex ==
    /\ probe.op # "resolve_codex"
    /\ probe' = [op        |-> "resolve_codex",
                 configured |-> settings.codex_cli_command,
                 out       |-> resolve_codex(settings.codex_cli_command),
                 again     |-> resolve_codex(resolve_codex(settings.codex_cli_command))]
    /\ ProbeFrame

ResolveNext == ResolveClaude \/ ResolveCodex

SpecResolve == ResolveInit /\ [][ResolveNext]_vars

\* the argv the setting stands for: a blank setting is the bare binary
Argv(default_binary) ==
    IF probe.configured = <<>> THEN <<default_binary>> ELSE probe.configured

\* the command has no -p / --print (claude), and its first argument is no
\* recognized subcommand
LacksDefault ==
    IF probe.op = "resolve_claude"
    THEN LET c == Argv("claude")
         IN  /\ \A k \in 2..Len(c) : c[k] \notin {"-p", "--print"}
             /\ (Len(c) > 1 => c[2] \notin claude_subcommands)
    ELSE LET c == Argv("codex")
         IN  Len(c) > 1 => c[2] \notin codex_subcommands

DefaultInserted ==
    IF probe.op = "resolve_claude"
    THEN probe.out = <<Argv("claude")[1], "-p">> \o Tail(Argv("claude"))
    ELSE probe.out = <<Argv("codex")[1], "exec">> \o Tail(Argv("codex"))

Resolved == probe.op \in {"resolve_claude", "resolve_codex"}

\* the base name of the binary, lower-cased, is the agent's
OwnBinary ==
    IF probe.op = "resolve_claude"
    THEN BinaryName(Argv("claude")[1]) = "claude"
    ELSE BinaryName(Argv("codex")[1]) = "codex"

\* C18 as stated: any configured command without the print flag / exec and
\* without a recognized subcommand gets the default inserted right after
\* the binary, the other tokens kept in order, and resolving the result
\* again changes nothing.
C18_DefaultInsertedForAnyCommand ==
    Resolved =>
        /\ LacksDefault => DefaultInserted
        /\ probe.again = probe.out

\* C18, amended: the default is inserted exactly for the commands whose
\* binary has the agent's base name (lower-cased) and that lack the print
\* flag / exec and a recognized subcommand; every other command is returned
\* as configured; resolving the result again changes nothing.
C18_DefaultInsertedForOwnBinary ==
    Resolved =>
        /\ (OwnBinary /\ LacksDefault) => DefaultInserted
        /\ ~(OwnBinary /\ LacksDefault) =>
               probe.out = Argv(IF probe.op = "resolve_claude" THEN "claude" ELSE "codex")
        /\ probe.again = probe.out

\* /usr/bin/claude --model resolved to /usr/bin/claude -p --model
C18_Witness ==
    /\ probe.op = "resolve_claude"
    /\ probe.configured = <<"/usr/bin/claude", "--model">>
    /\ probe.out = <<"/usr/bin/claude", "-p", "--model">>
    /\ probe.again = probe.out

----------------------------------------------------------------------------
\* The issue writer.  A file name is a token sequence in which "_", "-", "."
\* and every digit are tokens of their own and every other token is a run
\* of letters, e.g. team_003_old.md is
\* <<"team", "_", "0", "0", "3", "_", "old", ".", "md">>.

Digits == {"0", "1", "2", "3", "4", "5", "6", "7", "8", "9"}

DigitVal(d) ==
    CASE d = "0" -> 0 [] d = "1" -> 1 [] d = "2" -> 2 [] d = "3" -> 3
      [] d = "4" -> 4 [] d = "5" -> 5 [] d = "6" -> 6 [] d = "7" -> 7
      [] d = "8" -> 8 [] d = "9" -> 9

DigitTok(v) == CHOOSE d \in Digits : DigitVal(d) = v

\* int(match.group(1))
RECURSIVE ToInt(_)
ToInt(ds) ==
    IF ds = <<>> THEN 0
    ELSE 10 * ToInt(SubSeq(ds, 1, Len(ds) - 1)) + DigitVal(ds[Len(ds)])

RECURSIVE Decimal(_)
Decimal(n) ==
    IF n < 10 THEN <<DigitTok(n)>>
    ELSE Decimal(n \div 10) \o <<DigitTok(n % 10)>>

RECURSIVE ZeroPad(_, _)
ZeroPad(ds, width) ==
    IF Len(ds) >= width THEN ds ELSE ZeroPad(<<"0">> \o ds, width)

\* f"{next_num:03d}"
Format03d(n) == ZeroPad(Decimal(n), 3)

\* str.find(tok) + 1
RECURSIVE IndexOf(_, _, _)
IndexOf(text, tok, k) ==
    IF k > Len(text) THEN 0
    ELSE IF text[k] = tok THEN k ELSE IndexOf(text, tok, k + 1)

\* the length of the run of digits that starts at position k
RECURSIVE DigitRun(_, _)
DigitRun(text, k) ==
    IF k <= Len(text) /\ text[k] \in Digits THEN 1 + DigitRun(text, k + 1) ELSE 0

\* re.match(r"^[^S]+S(\d+)_", stem) for the separator S: <<n>>, or <<>>
\* when the pattern does not match.  [^S]+ ends before the first S, and
\* (\d+) is the whole run of digits after it.
MatchIndex(stem, sep) ==
    LET i == IndexOf(stem, sep, 1)
        n == DigitRun(stem, i + 1)
    IN  IF /\ i > 1
           /\ n > 0
           /\ i + n + 1 <= Len(stem)
           /\ stem[i + n + 1] = "_"
        THEN <<ToInt(SubSeq(stem, i + 1, i + n))>>
        ELSE <<>>

\* _extract_issue_index: <<n>>, or <<>> for None
_extract_issue_index(stem) ==
    IF MatchIndex(stem, "_") # <<>> THEN MatchIndex(stem, "_")
    ELSE MatchIndex(stem, "-")

ForbiddenChars == {"\\", "/", ":", "*", "?", "\"", "<", ">", "|"}

\* re.sub(r"[set]+", rep, text)
RECURSIVE CollapseRuns(_, _, _)
CollapseRuns(text, set, rep) ==
    IF text = <<>> THEN <<>>
    ELSE IF Head(text) \notin set
         THEN <<Head(text)>> \o CollapseRuns(Tail(text), set, rep)
         ELSE IF Len(text) > 1 /\ text[2] \in set
              THEN CollapseRuns(Tail(text), set, rep)
              ELSE rep \o CollapseRuns(Tail(text), set, rep)

\* str.strip(chars)
RECURSIVE StripChars(_, _)
StripChars(text, set) ==
    IF text # <<>> /\ Head(text) \in set THEN StripChars(Tail(text), set)
    ELSE IF text # <<>> /\ text[Len(text)] \in set
         THEN StripChars(SubSeq(text, 1, Len(text) - 1), set)
         ELSE text

\* _sanitize_filename_token; the tokens used here stay far below the 80
\* characters that cleaned[:80] keeps
_sanitize_filename_token(value, fallback) ==
    LET stripped == Strip(value)
        raw      == IF stripped = <<>> THEN fallback ELSE stripped
        removed  == CollapseRuns(raw, ForbiddenChars, <<>>)
        spaced   == Strip(CollapseRuns(removed, Whitespace, <<" ">>))
        joined   == [k \in 1..Len(spaced) |->
                        IF spaced[k] = " " THEN "_" ELSE spaced[k]]
        cleaned  == StripChars(CollapseRuns(joined, {"_"}, <<"_">>), {".", "_"})
    IN  IF cleaned = <<>> THEN fallback ELSE cleaned

\* Path(name).stem
Stem(name) == SubSeq(name, 1, Len(name) - Len(Suffix(name)))

\* Path(text).parts for a relative path text
RECURSIVE PathParts(_)
PathParts(text) ==
    LET i == IndexOf(text, "/", 1)
    IN  IF text = <<>> THEN <<>>
        ELSE IF i = 0 THEN <<text>>
        ELSE IF i = 1 THEN PathParts(Tail(text))
        ELSE <<SubSeq(text, 1, i - 1)>> \o PathParts(SubSeq(text, i + 1, Len(text)))

\* issue_dir.glob("*.md"), as stems
ExistingStems(files, issue_dir) ==
    {Stem(p[Len(p)]) :
        p \in {q \in files :
                  /\ Len(q) = Len(issue_dir) + 1
                  /\ SubSeq(q, 1, Len(issue_dir)) = issue_dir
                  /\ Len(q[Len(q)]) >= 2
                  /\ SubSeq(q[Len(q)], Len(q[Len(q)]) - 1, Len(q[Len(q)])) = <<".", "md">>}}

\* the loop over `existing`: max(1, index + 1 ...)
NextNum(stems) ==
    LET found == {1} \cup {_extract_issue_index(stem)[1] + 1 :
                              stem \in {t \in stems : _extract_issue_index(t) # <<>>}}
    IN  CHOOSE n \in found : \A m \in found : m <= n

\* _save_ai_output up to out_path; title_raw is what
\* _extract_title_from_ai_output returned for the output
_save_ai_output(files, source_path, title_raw, issue_folder) ==
    LET account      == IF Len(source_path) > 1 THEN source_path[1] ELSE <<>>
        issue_dir    == IF account # <<>>
                        THEN <<account, <<"Issues">>>>
                        ELSE PathParts(issue_folder)
        existing     == ExistingStems(files, issue_dir)
        next_num     == NextNum(existing)
        dir_name     == IF issue_dir # <<>> THEN issue_dir[Len(issue_dir)] ELSE <<>>
        folder_token == _sanitize_filename_token(
                            IF account # <<>> THEN account
                            ELSE IF dir_name # <<>> THEN dir_name ELSE <<"issue">>,
                            <<"issue">>)
        source_stem  == Stem(source_path[Len(source_path)])
        title_token  == _sanitize_filename_token(
                            title_raw,
                            IF source_stem # <<>> THEN source_stem ELSE <<"untitled">>)
        out_name     == folder_token \o <<"_">> \o Format03d(next_num) \o <<"_">>
                            \o title_token \o <<".", "md">>
    IN  [issue_dir    |-> issue_dir,
         existing     |-> existing,
         next_num     |-> next_num,
         folder_token |-> folder_token,
         title_token  |-> title_token,
         name         |-> out_name,
         out_path     |-> issue_dir \o <<out_name>>,
         overwrites   |-> (issue_dir \o <<out_name>>) \in files]

----------------------------------------------------------------------------
\* SpecSave: up to MaxSaves saves into a vault that already holds some of
\* SeedIssues

MaxSaves == 3

NoteName == <<"m", ".", "md">>

SeedIssues ==
    {<< <<"team">>, <<"Issues">>,
        <<"team", "_", "0", "0", "3", "_", "old", ".", "md">> >>,
     << <<"team">>, <<"Issues">>,
        <<"team", "_", "0", "0", "7", "_", "alpha", ".", "md">> >>,
     << <<"team">>, <<"Issues">>, <<"readme", ".", "md">> >>,
     << <<"issue">>, <<"CODE", "-", "0", "1", "2", "_", "x", ".", "md">> >>}

\* the notes that get summarized: under an account folder, under an account
\* folder with a space or a hyphen in its name, and at the vault root
SaveSources ==
    {<< <<"team">>, NoteName >>,
     << <<"my", " ", "team">>, NoteName >>,
     << <<"a", "-", "b">>, NoteName >>,
     << NoteName >>}

SaveTitles == {<<"Beta">>, <<"weekly", " ", "sync">>}

SaveInit ==
    /\ SessionInit
    /\ settings = StreamSettings
    /\ ApiIdle
    /\ InvIdle
    /\ StreamIdle
    /\ AUTO_WATCH_STATE = WatchStateInit(FALSE)
    /\ watch_config = [vault_path         |-> "/vaultA",
                       auto_watch_enabled |-> FALSE,
                       issue_folder       |-> DefaultIssueFolder]
    /\ \E files \in SUBSET SeedIssues :
           fs = [r \in Roots |-> IF r = "/vaultA"
                                 THEN [kind |-> "dir", files |-> files]
                                 ELSE [kind |-> "dir", files |-> {}]]
    /\ loop = NoLoop
    /\ watch_log = NoWatchLog
    /\ save_log = <<>>
    /\ probe = NoProbe

\* one save: mkdir, numbering, write_text
SaveCall ==
    /\ Len(save_log) < MaxSaves
    /\ \E source_path \in SaveSources, title_raw \in SaveTitles :
           LET vault == watch_config.vault_path
               saved == _save_ai_output(fs[vault].files, source_path, title_raw,
                                        watch_config.issue_folder)
           IN  /\ fs' = [fs EXCEPT ![vault].files = @ \cup {saved.out_path}]
               /\ save_log' = Append(save_log, saved)
    /\ UNCHANGED <<sessVars, apiVars, invVars, streamVars,
                   AUTO_WATCH_STATE, watch_config, loop, watch_log, probe>>

SaveNext == SaveCall

SpecSave == SaveInit /\ [][SaveNext]_vars

\* C14: no save writes over a file that is already in the folder, and the
\* numbers given by successive saves into one folder strictly increase.
C14_NeverOverwritesNumbersIncrease ==
    /\ \A i \in 1..Len(save_log) : ~save_log[i].overwrites
    /\ \A i, j \in 1..Len(save_log) :
           (i < j /\ save_log[i].issue_dir = save_log[j].issue_dir)
               => save_log[i].next_num < save_log[j].next_num

\* the sequence number a file name carries under the naming rule
\* {folder}_{NNN}_{title} of its folder, or under the legacy rule
\* CODE-NNN_title: <<n>>, or <<>> when it carries none
EmbeddedNumber(stem, folder_token) ==
    LET k == Len(folder_token)
        n == DigitRun(stem, k + 2)
    IN  IF /\ Len(stem) >= k + 3
           /\ SubSeq(stem, 1, k) = folder_token
           /\ stem[k + 1] = "_"
           /\ n > 0
           /\ k + n + 2 <= Len(stem)
           /\ stem[k + n + 2] = "_"
        THEN <<ToInt(SubSeq(stem, k + 2, k + n + 1))>>
        ELSE MatchIndex(stem, "-")

MaxEmbedded(stems, folder_token) ==
    LET found == {0} \cup {EmbeddedNumber(stem, folder_token)[1] :
                              stem \in {t \in stems : EmbeddedNumber(t, folder_token) # <<>>}}
    IN  CHOOSE n \in found : \A m \in found : m <= n

\* C15: every save gets the largest number carried by the .md files of
\* its folder plus one (1 when none carries a number) and is named
\* {folder}_{NNN}_{title}.md with the number padded to three digits.
C15_NumberIsMaxPlusOne ==
    \A i \in 1..Len(save_log) :
        /\ save_log[i].next_num =
               MaxEmbedded(save_log[i].existing, save_log[i].folder_token) + 1
        /\ save_log[i].name =
               save_log[i].folder_token \o <<"_">> \o Format03d(save_log[i].next_num)
                   \o <<"_">> \o save_log[i].title_token \o <<".", "md">>

----------------------------------------------------------------------------
\* SpecWatch: the auto-watch loop against the toggle route, the vault
\* configuration route and changes made to the vaults from outside.
\* Holding _AUTO_WATCH_LOCK never spans an await, so the lock is never
\* contended and `async with _AUTO_WATCH_LOCK` never suspends: the loop
\* runs from one suspension point (the poll sleep, the stability sleep, the
\* subprocess await) to the next without another coroutine in between.
\* update_config is a plain `def` route, served by a worker thread, and the
\* vaults change from outside at any moment.

MaxFsEvents == 2

NoteA == << <<"a", ".", "md">> >>
NoteB == << <<"b", ".", "md">> >>
NoteC == << <<"team">>, <<"c", ".", "md">> >>

WatchPaths == {NoteA, NoteB, NoteC}

\* the vault that is worked in while the loop runs; the other one keeps the
\* two notes it holds
ChangingRoots == {"/vaultA"}

\* the order of sorted() on the relative paths "a.md" < "b.md" < "team/c.md"
PathOrder == <<NoteA, NoteB, NoteC>>

Rank(p) == CHOOSE k \in 1..Len(PathOrder) : PathOrder[k] = p

\* sorted(), descending
sorted_descending(S) ==
    CHOOSE q \in [1..Cardinality(S) -> S] :
        \A i, j \in 1..Cardinality(S) : i < j => Rank(q[i]) > Rank(q[j])

\* sorted()
Sorted(S) ==
    CHOOSE q \in [1..Cardinality(S) -> S] :
        \A i, j \in 1..Cardinality(S) : i < j => Rank(q[i]) < Rank(q[j])

\* a diff that forgets what is known
new_files_ignoring_known(current_files, known_files) == Sorted(current_files)

\* new_files = sorted(current_files - known_files)
NewFiles(current_files, known_files) == Sorted(current_files \ known_files)

\* a tick that keeps the old baseline
known_kept(current_files, known_files) == known_files

\* _AUTO_WATCH_STATE["known_files"] = current_files
KnownAfterTick(current_files, known_files) == current_files

\* a batch that does not look at the flag
batch_ignores_flag(state) == TRUE

\* the test at the head of the for loop: `if not enabled: break`
BatchContinues(state) == state.enabled

IsFile(vault, rel_path) == fs[vault].kind = "dir" /\ rel_path \in fs[vault].files

\* what the agent answers for a note: a summary titled Beta
SummaryTitle == <<"Beta">>

Outcome(vault, rel_path, outcome) ==
    [vault |-> vault, path |-> rel_path, outcome |-> outcome]

\* the end of one handling, as the log sees it
Logged(vault, rel_path, outcome) ==
    [watch_log EXCEPT !.handled = Append(@, Outcome(vault, rel_path, outcome)),
                      !.in_flight = @ \ {rel_path}]

\* an exception of the handler that leaves the for loop and reaches the
\* handler of the tick
file_error_ends_batch(l) ==
    [l EXCEPT !.pc = "sleep", !.new_files = <<>>, !.rel_path = <<>>,
              !.file_vault = ""]

\* `except Exception` inside the for loop: on to the next file
AfterFileError(l) ==
    [l EXCEPT !.pc = "next_file", !.rel_path = <<>>, !.file_vault = ""]

\* _set_auto_watch_error(f"{rel_path}: {exc}")
FileError(rel_path, exc) ==
    [AUTO_WATCH_STATE EXCEPT !.last_error = <<rel_path, exc>>,
                             !.last_error_at = now]

\* the statistics written without clearing the error
processed_keeps_error(file_path, saved_path) ==
    [AUTO_WATCH_STATE EXCEPT !.processed_count = @ + 1,
                             !.last_processed_file = file_path,
                             !.last_saved_path = saved_path,
                             !.last_processed_at = now]

\* the statistics _handle_auto_watch_file writes under the lock after
\* summarize_file_to_issue has returned
Processed(file_path, saved_path) ==
    [AUTO_WATCH_STATE EXCEPT !.processed_count = @ + 1,
                             !.last_processed_file = file_path,
                             !.last_saved_path = saved_path,
                             !.last_processed_at = now,
                             !.last_error = <<>>,
                             !.last_error_at = 0]

WatchInit ==
    /\ SessionInit
    /\ settings = StreamSettings
    /\ ApiIdle
    /\ InvIdle
    /\ StreamIdle
    /\ \E enabled \in BOOLEAN :
           /\ AUTO_WATCH_STATE = WatchStateInit(enabled)
           /\ watch_config = [vault_path         |-> "/vaultA",
                              auto_watch_enabled |-> enabled,
                              issue_folder       |-> DefaultIssueFolder]
    /\ \E files \in {{}, {NoteA}} :
           fs = [r \in Roots |-> IF r = "/vaultA"
                                 THEN [kind |-> "dir", files |-> files]
                                 ELSE [kind |-> "dir", files |-> {NoteA, NoteB}]]
    /\ loop = NoLoop
    /\ watch_log = NoWatchLog
    /\ save_log = <<>>
    /\ probe = NoProbe

WatchFrame ==
    UNCHANGED <<SESSION_STATE, settings, minted, apiVars, invVars, streamVars,
                save_log, probe>>

\* start_auto_watch, from the lifespan of the application
Startup ==
    /\ loop.pc = "none"
    /\ loop' = [loop EXCEPT !.pc = "sleep"]
    /\ AUTO_WATCH_STATE' =
           IF AUTO_WATCH_STATE.enabled
           THEN [AUTO_WATCH_STATE EXCEPT
                    !.task = "running",
                    !.vault_path = watch_config.vault_path,
                    !.known_files = _scan_watch_candidates(watch_config.vault_path)]
           ELSE [AUTO_WATCH_STATE EXCEPT !.task = "running"]
    /\ UNCHANGED <<now, watch_config, fs, watch_log>>
    /\ WatchFrame

\* one pass of the while loop, from the end of the poll sleep to `continue`
\* or to the head of the for loop
WatchTick ==
    /\ loop.pc = "sleep"
    /\ now < MaxTime
    /\ now' = now + 1
    /\ LET vault         == watch_config.vault_path
           current_files == _scan_watch_candidates(vault)
           known_files   == AUTO_WATCH_STATE.known_files
           tracked_vault == AUTO_WATCH_STATE.vault_path
           quiet         == /\ ~watch_log.dirty
                            /\ watch_log.tick.kind \in {"baseline", "diff"}
                            /\ watch_log.tick.vault = vault
           seen(kind)    == [watch_log EXCEPT
                                !.tick = [kind         |-> kind,
                                          vault        |-> vault,
                                          quiet        |-> quiet,
                                          known_before |-> known_files,
                                          current      |-> current_files],
                                !.handled = <<>>,
                                !.handed = @ \cap current_files,
                                !.absorbed = {},
                                !.dirty = FALSE]
       IN  IF ~AUTO_WATCH_STATE.enabled
           THEN /\ watch_log' = [watch_log EXCEPT !.tick = [kind |-> "disabled"],
                                                  !.handled = <<>>]
                /\ UNCHANGED <<AUTO_WATCH_STATE, loop>>
           ELSE IF fs[vault].kind # "dir"
           THEN /\ AUTO_WATCH_STATE' =
                       [AUTO_WATCH_STATE EXCEPT
                           !.last_error = << << <<"vault not found">> >>, vault>>,
                           !.last_error_at = now']
                /\ watch_log' = [watch_log EXCEPT !.tick = [kind |-> "missing"],
                                                  !.handled = <<>>]
                /\ UNCHANGED loop
           ELSE IF tracked_vault # vault
           THEN /\ AUTO_WATCH_STATE' =
                       [AUTO_WATCH_STATE EXCEPT !.vault_path = vault,
                                                !.known_files = current_files]
                /\ watch_log' = seen("baseline")
                /\ UNCHANGED loop
           ELSE /\ AUTO_WATCH_STATE' =
                       [AUTO_WATCH_STATE EXCEPT
                           !.vault_path = vault,
                           !.known_files = KnownAfterTick(current_files, known_files)]
                /\ loop' = [loop EXCEPT
                               !.pc = "next_file",
                               !.vault = vault,
                               !.new_files = NewFiles(current_files, known_files)]
                /\ watch_log' = seen("diff")
    /\ UNCHANGED <<watch_config, fs>>
    /\ WatchFrame

\* the head of the for loop and _handle_auto_watch_file up to its first
\* suspension, the sleep of _wait_for_stable_file
WatchNextFile ==
    /\ loop.pc = "next_file"
    /\ IF loop.new_files = <<>> \/ ~BatchContinues(AUTO_WATCH_STATE)
       THEN /\ loop' = [loop EXCEPT !.pc = "sleep", !.new_files = <<>>]
            /\ UNCHANGED watch_log
       ELSE LET rel_path == Head(loop.new_files)
                vault    == watch_config.vault_path
            IN  IF IsFile(vault, rel_path)
                THEN /\ loop' = [loop EXCEPT !.pc = "settle",
                                             !.new_files = Tail(@),
                                             !.rel_path = rel_path,
                                             !.file_vault = vault]
                     /\ watch_log' = [watch_log EXCEPT
                                         !.in_flight = @ \cup {rel_path},
                                         !.handed = @ \cup {rel_path}]
                ELSE /\ loop' = [loop EXCEPT !.new_files = Tail(@)]
                     /\ watch_log' = Logged(vault, rel_path, "skipped")
    /\ UNCHANGED <<now, AUTO_WATCH_STATE, watch_config, fs>>
    /\ WatchFrame

\* the return of _wait_for_stable_file (True exactly when the file is there
\* at its last look) and summarize_file_to_issue up to the subprocess await
WatchSettle ==
    /\ loop.pc = "settle"
    /\ LET vault == watch_config.vault_path
       IN  IF ~IsFile(loop.file_vault, loop.rel_path)
           THEN /\ loop' = [loop EXCEPT !.pc = "next_file", !.rel_path = <<>>,
                                        !.file_vault = ""]
                /\ watch_log' = Logged(loop.file_vault, loop.rel_path, "skipped")
                /\ UNCHANGED AUTO_WATCH_STATE
           ELSE IF ~IsFile(vault, loop.rel_path)
           THEN /\ loop' = AfterFileError(loop)
                /\ AUTO_WATCH_STATE' = FileError(loop.rel_path, "FileNotFoundError")
                /\ watch_log' = Logged(vault, loop.rel_path, "failed")
           ELSE /\ loop' = [loop EXCEPT !.pc = "summarize", !.file_vault = vault]
                /\ UNCHANGED <<AUTO_WATCH_STATE, watch_log>>
    /\ UNCHANGED <<now, watch_config, fs>>
    /\ WatchFrame

\* the subprocess await returns: the summary is saved and counted, or the
\* error of the agent is recorded
WatchSummarized ==
    /\ loop.pc = "summarize"
    /\ \E ok \in BOOLEAN :
           IF ok
           THEN LET saved == _save_ai_output(fs[loop.file_vault].files,
                                             loop.rel_path, SummaryTitle,
                                             watch_config.issue_folder)
                IN  /\ fs' = [fs EXCEPT ![loop.file_vault] =
                                 [kind  |-> "dir",
                                  files |-> @.files \cup {saved.out_path}]]
                    /\ AUTO_WATCH_STATE' = Processed(loop.rel_path, saved.out_path)
                    /\ loop' = [loop EXCEPT !.pc = "next_file", !.rel_path = <<>>,
                                            !.file_vault = ""]
                    /\ watch_log' = [Logged(loop.file_vault, loop.rel_path, "saved")
                                        EXCEPT !.dirty = TRUE]
           ELSE /\ loop' = AfterFileError(loop)
                /\ AUTO_WATCH_STATE' = FileError(loop.rel_path, "RuntimeError")
                /\ watch_log' = Logged(loop.file_vault, loop.rel_path, "failed")
                /\ UNCHANGED fs
    /\ UNCHANGED <<now, watch_config>>
    /\ WatchFrame

\* set_auto_watch_status(enabled), served while the loop is suspended
Toggle(enabled) ==
    /\ loop.pc \in {"sleep", "settle", "summarize", "retry_sleep"}
    /\ watch_config' = [watch_config EXCEPT !.auto_watch_enabled = enabled]
    /\ AUTO_WATCH_STATE' =
           IF enabled
           THEN [AUTO_WATCH_STATE EXCEPT
                    !.enabled = TRUE,
                    !.vault_path = watch_config.vault_path,
                    !.known_files = _scan_watch_candidates(watch_config.vault_path),
                    !.last_error = <<>>,
                    !.last_error_at = 0]
           ELSE [AUTO_WATCH_STATE EXCEPT
                    !.enabled = FALSE,
                    !.vault_path = "",
                    !.known_files = {}]
    /\ watch_log' =
           LET snapshot == _scan_watch_candidates(watch_config.vault_path)
           IN  IF ~enabled
               THEN [watch_log EXCEPT !.absorbed = {}]
               ELSE IF /\ AUTO_WATCH_STATE.enabled
                       /\ AUTO_WATCH_STATE.vault_path = watch_config.vault_path
               THEN [watch_log EXCEPT
                        !.handed = @ \cap snapshot,
                        !.absorbed = @ \cup (snapshot \ AUTO_WATCH_STATE.known_files)]
               ELSE [watch_log EXCEPT !.handed = @ \cap snapshot]
    /\ UNCHANGED <<now, fs, loop>>
    /\ WatchFrame

\* update_config -> set_vault_path(root)
SetVaultPath(root) ==
    /\ loop.pc # "none"
    /\ root # watch_config.vault_path
    /\ fs[root].kind = "dir"
    /\ watch_config' = [watch_config EXCEPT !.vault_path = root]
    /\ UNCHANGED <<now, AUTO_WATCH_STATE, fs, loop, watch_log>>
    /\ WatchFrame

\* a note is written into a vault from outside
AddFile(root, p) ==
    /\ loop.pc # "none"
    /\ watch_log.events < MaxFsEvents
    /\ p \notin fs[root].files
    /\ fs' = [fs EXCEPT ![root] = [kind |-> "dir", files |-> @.files \cup {p}]]
    /\ watch_log' = [watch_log EXCEPT !.events = @ + 1, !.dirty = TRUE]
    /\ UNCHANGED <<now, AUTO_WATCH_STATE, watch_config, loop>>
    /\ WatchFrame

\* a note is deleted from outside
RemoveFile(root, p) ==
    /\ loop.pc # "none"
    /\ watch_log.events < MaxFsEvents
    /\ p \in fs[root].files
    /\ fs' = [fs EXCEPT ![root].files = @ \ {p}]
    /\ watch_log' = [watch_log EXCEPT !.events = @ + 1, !.dirty = TRUE]
    /\ UNCHANGED <<now, AUTO_WATCH_STATE, watch_config, loop>>
    /\ WatchFrame

\* a vault folder is deleted or unmounted from outside
RemoveRoot(root) ==
    /\ loop.pc # "none"
    /\ watch_log.events < MaxFsEvents
    /\ fs[root].kind = "dir"
    /\ fs' = [fs EXCEPT ![root] = [kind |-> "missing", files |-> {}]]
    /\ watch_log' = [watch_log EXCEPT !.events = @ + 1, !.dirty = TRUE]
    /\ UNCHANGED <<now, AUTO_WATCH_STATE, watch_config, loop>>
    /\ WatchFrame

WatchNext ==
    \/ Startup
    \/ WatchTick
    \/ WatchNextFile
    \/ WatchSettle
    \/ WatchSummarized
    \/ \E enabled \in BOOLEAN : Toggle(enabled)
    \/ \E root \in Roots : SetVaultPath(root)
    \/ \E root \in ChangingRoots, p \in WatchPaths : AddFile(root, p)
    \/ \E root \in ChangingRoots, p \in WatchPaths : RemoveFile(root, p)
    \/ \E root \in ChangingRoots : RemoveRoot(root)

SpecWatch == WatchInit /\ [][WatchNext]_vars

\* a tick is the only step that moves the clock of the watch loop
TickStep == now' # now

ConfiguredRoot == watch_config.vault_path

ScanNow == _scan_watch_candidates(ConfiguredRoot)

Range(q) == {q[k] : k \in 1..Len(q)}

\* C11: on a tick of the enabled loop whose configured root is the
\* tracked root, the files queued are exactly the scan result minus
\* known_files as it was before the tick, and afterwards known_files is the
\* scan result.
C11_QueuesCurrentMinusKnown ==
    [][(/\ TickStep
        /\ AUTO_WATCH_STATE.enabled
        /\ fs[ConfiguredRoot].kind = "dir"
        /\ AUTO_WATCH_STATE.vault_path = ConfiguredRoot)
          => /\ loop'.pc = "next_file"
             /\ Range(loop'.new_files) = ScanNow \ AUTO_WATCH_STATE.known_files
             /\ Len(loop'.new_files) = Cardinality(ScanNow \ AUTO_WATCH_STATE.known_files)
             /\ AUTO_WATCH_STATE'.known_files = ScanNow]_vars

\* known = {a.md}, current = {a.md, b.md}: exactly b.md is queued
C11_Witness ==
    /\ loop.pc = "next_file"
    /\ watch_log.tick.kind = "diff"
    /\ watch_log.tick.known_before = {NoteA}
    /\ watch_log.tick.current = {NoteA, NoteB}
    /\ loop.new_files = <<NoteB>>
    /\ AUTO_WATCH_STATE.known_files = {NoteA, NoteB}

\* the baseline part of C12: a tick that finds another root configured
\* than the tracked one, the toggle that enables and the startup of an
\* enabled loop all set known_files to the scan of the configured root and
\* track that root, and hand no file to the handler
BaselineSteps ==
    [][/\ (/\ TickStep
           /\ AUTO_WATCH_STATE.enabled
           /\ fs[ConfiguredRoot].kind = "dir"
           /\ AUTO_WATCH_STATE.vault_path # ConfiguredRoot)
             => /\ AUTO_WATCH_STATE'.known_files = ScanNow
                /\ AUTO_WATCH_STATE'.vault_path = ConfiguredRoot
                /\ loop' = loop
                /\ watch_log'.in_flight = {}
                /\ watch_log'.handled = <<>>
       /\ (AUTO_WATCH_STATE'.enabled /\ (~AUTO_WATCH_STATE.enabled \/ loop.pc = "none"))
             => /\ AUTO_WATCH_STATE'.known_files = ScanNow
                /\ AUTO_WATCH_STATE'.vault_path = ConfiguredRoot
                /\ loop'.new_files = loop.new_files]_vars

\* C12: ... so a file that was already under a root when its baseline
\* was taken is never processed as new: whatever file the loop is handling,
\* under whatever root, was found by the last tick under that root and was
\* absent from known_files then.
C12_PresentFilesNeverProcessedAsNew ==
    loop.pc \in {"settle", "summarize"} =>
        /\ watch_log.tick.kind = "diff"
        /\ loop.file_vault = watch_log.tick.vault
        /\ loop.rel_path \in watch_log.tick.current \ watch_log.tick.known_before

FileFailed ==
    /\ Len(watch_log'.handled) = Len(watch_log.handled) + 1
    /\ watch_log'.handled[Len(watch_log'.handled)].outcome = "failed"

\* C13: when handling a file raises, last_error gets the file and the
\* error, last_error_at the time; the rest of the batch stays queued and
\* the loop goes on to it; the baseline is left as it is, so the failed
\* file is not queued again.
C13_FailureRecordedBatchGoesOn ==
    [][FileFailed
          => /\ Len(AUTO_WATCH_STATE'.last_error) = 2
             /\ AUTO_WATCH_STATE'.last_error[1] = loop.rel_path
             /\ AUTO_WATCH_STATE'.last_error_at = now
             /\ AUTO_WATCH_STATE'.last_error_at > 0
             /\ loop'.pc = "next_file"
             /\ loop'.new_files = loop.new_files
             /\ loop.rel_path \notin Range(loop'.new_files)
             /\ AUTO_WATCH_STATE'.known_files = AUTO_WATCH_STATE.known_files
             /\ AUTO_WATCH_STATE'.task = "running"]_vars

\* one file of a batch has failed and a later file of the same batch has
\* been saved
C13_Witness ==
    \E i, j \in 1..Len(watch_log.handled) :
        /\ i < j
        /\ watch_log.handled[i].outcome = "failed"
        /\ watch_log.handled[j].outcome = "saved"

\* the handler is called for the next file of the batch
HandlingStarts ==
    /\ loop.pc = "next_file"
    /\ \/ watch_log'.in_flight # watch_log.in_flight
       \/ Len(watch_log'.handled) = Len(watch_log.handled) + 1

\* C16: the handler is only ever called while the loop sees auto-watch
\* enabled; a tick that sees it disabled scans nothing and leaves
\* known_files, the tracked root and the queue alone; a batch that sees it
\* disabled before a file drops the rest of the batch.
C16_DisabledStartsNoFile ==
    [][/\ HandlingStarts => AUTO_WATCH_STATE.enabled
       /\ (TickStep /\ ~AUTO_WATCH_STATE.enabled)
             => /\ AUTO_WATCH_STATE' = AUTO_WATCH_STATE
                /\ loop' = loop
                /\ watch_log'.tick = [kind |-> "disabled"]
       /\ (loop.pc = "next_file" /\ loop' # loop /\ ~AUTO_WATCH_STATE.enabled)
             => /\ loop'.pc = "sleep"
                /\ loop'.new_files = <<>>
                /\ watch_log' = watch_log]_vars

\* two files were queued, one was handled, auto-watch was disabled, and the
\* loop is back in its poll sleep without having called the handler for the
\* other one
C16_Witness ==
    /\ ~AUTO_WATCH_STATE.enabled
    /\ loop.pc = "sleep"
    /\ watch_log.tick.kind = "diff"
    /\ Cardinality(watch_log.tick.current \ watch_log.tick.known_before) = 2
    /\ Len(watch_log.handled) = 1

\* C17: the files of a batch are handled in ascending path order and one
\* at a time: at most one file is being handled, it is the one the loop
\* holds, every file handled before it in the batch sorts before it and
\* every file still queued sorts after it.
C17_OneAtATimeAscending ==
    /\ Cardinality(watch_log.in_flight) <= 1
    /\ watch_log.in_flight = IF loop.pc \in {"settle", "summarize"}
                            THEN {loop.rel_path} ELSE {}
    /\ \A i, j \in 1..Len(watch_log.handled) :
           i < j => Rank(watch_log.handled[i].path) < Rank(watch_log.handled[j].path)
    /\ \A i, j \in 1..Len(loop.new_files) :
           i < j => Rank(loop.new_files[i]) < Rank(loop.new_files[j])
    /\ \A i \in 1..Len(watch_log.handled), k \in 1..Len(loop.new_files) :
           Rank(watch_log.handled[i].path) < Rank(loop.new_files[k])
    /\ loop.rel_path # <<>> =>
           /\ \A i \in 1..Len(watch_log.handled) :
                  Rank(watch_log.handled[i].path) < Rank(loop.rel_path)
           /\ \A k \in 1..Len(loop.new_files) :
                  Rank(loop.rel_path) < Rank(loop.new_files[k])

\* a.md has been handled, b.md is being summarized, team/c.md... is not
\* there: a batch of two in order
C17_Witness ==
    /\ Len(watch_log.handled) = 1
    /\ watch_log.handled[1].path = NoteA
    /\ watch_log.handled[1].outcome = "saved"
    /\ loop.pc = "summarize"
    /\ loop.rel_path = NoteB

\* C20: a tick that scans the root the tick before scanned, no vault
\* having changed in between, gets the same set again and queues no file.
C20_RescanQueuesNothing ==
    [][(/\ TickStep
        /\ AUTO_WATCH_STATE.enabled
        /\ ~watch_log.dirty
        /\ watch_log.tick.kind \in {"baseline", "diff"}
        /\ watch_log.tick.vault = ConfiguredRoot)
          => /\ ScanNow = watch_log.tick.current
             /\ watch_log'.tick.kind \in {"baseline", "diff"}
             /\ watch_log'.tick.current = watch_log.tick.current
             /\ loop'.new_files = <<>>]_vars

\* a second tick over an unchanged vault that holds notes
C20_Witness ==
    /\ watch_log.tick.kind = "diff"
    /\ watch_log.tick.quiet
    /\ watch_log.tick.current # {}
    /\ loop.pc = "next_file"
    /\ loop.new_files = <<>>

----------------------------------------------------------------------------
\* The session functions one call at a time (SpecSession); last_call holds
\* the arguments of the latest call and the slot as it was before it.

\* C21: a touch with the current id sets last_used to the clock reading
\* and adds one to turns when success is true and nothing when it is
\* false; a touch with a stale or the empty id leaves the slot as it was.
C21_TouchEffect ==
    last_call.op = "touch" =>
        IF last_call.id # NoId /\ last_call.id = last_call.pre.id
        THEN /\ SESSION_STATE.id = last_call.pre.id
             /\ SESSION_STATE.last_used = last_call.at
             /\ SESSION_STATE.turns =
                    last_call.pre.turns + (IF last_call.success THEN 1 ELSE 0)
        ELSE SESSION_STATE = last_call.pre

\* a failed touch of the current session, later than its last use, after
\* the session has counted a turn
C21_Witness ==
    /\ last_call.op = "touch"
    /\ last_call.id # NoId
    /\ last_call.id = last_call.pre.id
    /\ ~last_call.success
    /\ last_call.pre.turns > 0
    /\ last_call.at > last_call.pre.last_used
    /\ SESSION_STATE.turns = last_call.pre.turns
    /\ SESSION_STATE.last_used = last_call.at

\* C22: a reset with the current id empties the slot; a reset with any
\* other id, one of a session that has been replaced included, leaves the
\* slot as it was.
C22_ResetOnlyCurrent ==
    last_call.op = "reset" =>
        IF last_call.id # NoId /\ last_call.id = last_call.pre.id
        THEN SESSION_STATE = EmptySession
        ELSE SESSION_STATE = last_call.pre

\* a reset that carries the id of an older session while a newer one, with
\* a turn counted, holds the slot
C22_Witness ==
    /\ last_call.op = "reset"
    /\ last_call.id # NoId
    /\ last_call.pre.id # NoId
    /\ last_call.id < last_call.pre.id
    /\ last_call.pre.turns > 0
    /\ SESSION_STATE = last_call.pre

\* the invocation carries a leased session id
Leased(i) == inv[i].session_id # NoId

\* the step on which the outcome of invocation i is on its way to the caller
OutcomeRaised(i) == inv[i].pc # "raise" /\ inv'[i].pc = "raise"

\* C23: every terminal outcome of an invocation that leased a session id
\* updates the session bookkeeping: the outcome reaches the caller only after
\* _touch_session, which adds one to turn_count exactly when the invocation
\* succeeded (exit code 0 and non-empty stdout) and otherwise (executable not
\* found, timeout, non-zero exit, empty output) leaves turn_count as it is,
\* and sets last_used to the time of the outcome in both cases.
C23_EveryOutcomeTouches ==
    [][\A i \in Procs :
        /\ (Leased(i) /\ OutcomeRaised(i)) => inv[i].pc \in {"touch", "maybe_reset"}
        /\ (Leased(i) /\ inv[i].pc = "touch" /\ inv'[i].pc # "touch") =>
               /\ SESSION_STATE'.turns =
                      SESSION_STATE.turns + (IF inv[i].verdict = "ok" THEN 1 ELSE 0)
               /\ SESSION_STATE'.last_used = now
    ]_vars

\* reuse is skipped for the configured command: switched off, a session
\* flag in the command already, or a binary that is not claude
ReuseSkipped ==
    \/ ~settings.claude_cli_reuse_session
    \/ _command_has_session_flags(_resolve_command)
    \/ BinaryName(_resolve_command[1]) # "claude"

\* C24: when session reuse is skipped (disabled by configuration, a session
\* flag already in the command, or a binary other than the session-capable
\* agent) no session id is attached to any invocation and no step, from the
\* start of an invocation to its terminal outcome, changes the session slot:
\* nothing is leased, touched or reset.
C24_SkippedReuseLeavesSlot ==
    [][ReuseSkipped =>
          /\ SESSION_STATE' = SESSION_STATE
          /\ minted' = minted
          /\ \A i \in Procs : inv'[i].session_id = NoId
    ]_vars

\* an invocation of a command with a session flag has failed with the session
\* vocabulary on stderr, has passed its touch and its reset check and is about
\* to raise
C24_Witness ==
    /\ settings.claude_cli_reuse_session
    /\ _command_has_session_flags(_resolve_command)
    /\ \E i \in Procs :
           /\ IsClaude(inv[i].kind)
           /\ inv[i].pc = "raise"
           /\ inv[i].verdict = "nonzero"
           /\ SessionVocabulary(inv[i].result.stderr)
           /\ inv[i].session_id = NoId
    /\ SESSION_STATE = EmptySession

\* the texts of the chunk events of one channel, in the order of the events
RECURSIVE ChannelChunks(_, _)
ChannelChunks(events, channel) ==
    IF events = <<>> THEN <<>>
    ELSE (IF Head(events).type = "chunk" /\ Head(events).channel = channel
          THEN <<Head(events).text>> ELSE <<>>)
         \o ChannelChunks(Tail(events), channel)

\* the bytes the child has written to a channel so far, in the order it
\* wrote them
WrittenSoFar(channel) ==
    LET all == IF channel = "stdout" THEN proc.out ELSE proc.err
    IN  SubSeq(all, 1, Len(all) - Len(proc.todo[channel]))

\* those bytes as the lines they make up, each decoded; an unterminated rest
\* is the last of them
WrittenLines(channel) ==
    LET r == readline(WrittenSoFar(channel))
        lines == r.lines \o (IF r.rest # <<>> THEN <<r.rest>> ELSE <<>>)
    IN  [k \in 1..Len(lines) |-> DecodeReplace(lines[k])]

IsPrefix(a, b) == Len(a) <= Len(b) /\ a = SubSeq(b, 1, Len(a))

\* the chunks the reader of a channel has read: the delivered ones, then the
\* queued ones
ChunksRead(channel) ==
    ChannelChunks(delivered, channel) \o ChannelChunks(queue, channel)

\* the consumer has left its loop: it awaits the exit code or has it
LoopLeft == st.pc = "wait_exit" \/ st.returncode # -1

\* the chunks of each channel are read and delivered once each, in the order
\* the child wrote them, and the loop is left only after both eof markers,
\* with every chunk delivered
ChunksInOrderLoopEndsAfterEofs ==
    /\ \A c \in Channels : IsPrefix(ChunksRead(c), WrittenLines(c))
    /\ LoopLeft =>
          /\ st.eof_count = 2
          /\ \A c \in Channels :
                 /\ pump[c] = "done"
                 /\ ChannelChunks(delivered, c) = WrittenLines(c)

\* C25 as stated: within one streaming invocation every chunk a reader reads
\* from a channel before that channel's eof is delivered to the consumer
\* exactly once, chunks of one channel in the order the child wrote them, and
\* the consumer leaves its loop and awaits the exit code only after the eof
\* markers of both channels; between channels any order may occur.
C25_EveryChunkReadIsDelivered ==
    /\ ChunksInOrderLoopEndsAfterEofs
    /\ st.pc = "end" => \A c \in Channels : ChannelChunks(queue, c) = <<>>

\* C25, amended: the same for an invocation that neither times out nor is
\* abandoned by its consumer; the chunks read while the timeout handler awaits
\* the exit of the killed child, or queued when the consumer leaves, stay in
\* the queue.
C25_EveryChunkReadIsDeliveredUnlessTimeout ==
    /\ ChunksInOrderLoopEndsAfterEofs
    /\ (st.pc = "end" /\ st.outcome \notin {"timeout", "abandoned"}) =>
           \A c \in Channels : ChannelChunks(queue, c) = <<>>

\* the loop was left after two stdout chunks and a stderr chunk, the stderr
\* chunk delivered between the two stdout chunks
C25_Witness ==
    /\ LoopLeft
    /\ st.outcome \in {"ok", "nonzero"}
    /\ Len(ChannelChunks(delivered, "stdout")) = 2
    /\ Len(ChannelChunks(delivered, "stderr")) = 1
    /\ delivered[2].channel = "stderr"

\* C26: on every exit path of a streaming invocation after the readers have
\* been started (success, non-zero exit, empty output, timeout, abandonment
\* or cancellation by the consumer) both reader tasks have been cancelled and
\* awaited when the invocation ends: no reader task is live once the finally
\* block has run.
C26_ReadersGoneOnEveryExit ==
    st.pc \in {"check", "end"} => \A c \in Channels : pump[c] # "reading"

\* the consumer left while both readers were reading; both were cancelled
C26_Witness ==
    /\ st.pc = "end"
    /\ st.outcome = "abandoned"
    /\ \A c \in Channels : pump[c] = "cancelled"

----------------------------------------------------------------------------
\* SpecLoop: the life of the loop task. SpecWatch, plus ticks that raise
\* outside the for loop (get_vault_path() on a configuration that is not a
\* JSON object, Path.resolve() or vault.exists() failing with an OSError other
\* than "not found") and stop_auto_watch, called by the lifespan at shutdown
\* while the loop is suspended.

\* a tick-level exception that leaves the while loop
tick_error_ends_loop(l) == [l EXCEPT !.pc = "raised"]

\* `except Exception` of the while loop: the error is recorded and the loop
\* sleeps a second before its next pass
AfterTickError(l) == [l EXCEPT !.pc = "retry_sleep"]

\* a pass of the while loop that raises before the for loop is reached
TickRaises ==
    /\ loop.pc = "sleep"
    /\ AUTO_WATCH_STATE.enabled
    /\ now < MaxTime
    /\ now' = now + 1
    /\ AUTO_WATCH_STATE' = [AUTO_WATCH_STATE EXCEPT !.last_error = <<"OSError">>,
                                                    !.last_error_at = now']
    /\ loop' = AfterTickError(loop)
    /\ watch_log' = [watch_log EXCEPT !.tick = [kind |-> "raised"], !.handled = <<>>]
    /\ UNCHANGED <<watch_config, fs>>
    /\ WatchFrame

\* await asyncio.sleep(1.0) in the handler returns: the next pass begins
RetrySlept ==
    /\ loop.pc = "retry_sleep"
    /\ loop' = [loop EXCEPT !.pc = "sleep"]
    /\ UNCHANGED <<now, AUTO_WATCH_STATE, watch_config, fs, watch_log>>
    /\ WatchFrame

\* CancelledError thrown into the coroutine where it is suspended. In the try
\* block (the poll sleep, the stability sleep, the subprocess await; the
\* `except Exception` of the for loop does not catch it) it reaches `except
\* asyncio.CancelledError: break` and the coroutine returns. In the sleep of
\* the `except Exception` handler no clause of the try statement applies: it
\* leaves the coroutine.
Cancelled(l) ==
    [l EXCEPT !.pc = IF l.pc = "retry_sleep" THEN "raised" ELSE "returned"]

\* stop_auto_watch: the task is taken out of the state, cancelled and awaited
StopAutoWatch ==
    /\ AUTO_WATCH_STATE.task = "running"
    /\ loop.pc \in {"sleep", "settle", "summarize", "retry_sleep"}
    /\ AUTO_WATCH_STATE' = [AUTO_WATCH_STATE EXCEPT !.task = "none"]
    /\ loop' = Cancelled(loop)
    /\ UNCHANGED <<now, watch_config, fs, watch_log>>
    /\ WatchFrame

LoopNext ==
    \/ WatchNext
    \/ TickRaises
    \/ RetrySlept
    \/ StopAutoWatch

SpecLoop == WatchInit /\ [][LoopNext]_vars

\* the coroutine of the loop task has ended
LoopEnded == loop.pc \in {"returned", "raised"}

\* C27: a loop task cancelled at any of its suspension points (the poll
\* sleep, the stability sleep, the subprocess await, the retry sleep after a
\* tick-level exception) terminates, and its coroutine returns: it does not
\* end by raising.
C27_CancelledLoopReturns ==
    (AUTO_WATCH_STATE.task = "none" /\ loop.pc # "none") => loop.pc = "returned"

\* C28: the loop task ends by cancellation only. A missing root, an
\* exception of the handler of a file and an exception of the tick itself are
\* each recorded in last_error with the time, and the loop goes on (to its
\* next sleep or to the next file); the coroutine ends on no step but the
\* cancellation by stop_auto_watch.
C28_LoopEndsOnlyByCancellation ==
    [][/\ (LoopEnded' /\ ~LoopEnded) =>
             (AUTO_WATCH_STATE.task = "running" /\ AUTO_WATCH_STATE'.task = "none")
       /\ (TickStep /\ watch_log'.tick.kind \in {"missing", "raised"}) =>
             /\ AUTO_WATCH_STATE'.last_error # <<>>
             /\ AUTO_WATCH_STATE'.last_error_at = now'
             /\ loop'.pc \in {"sleep", "retry_sleep"}
             /\ AUTO_WATCH_STATE'.task = "running"
       /\ FileFailed =>
             /\ AUTO_WATCH_STATE'.last_error # <<>>
             /\ loop'.pc = "next_file"
             /\ AUTO_WATCH_STATE'.task = "running"
       /\ (loop.pc = "retry_sleep" /\ loop'.pc # "retry_sleep" /\ ~LoopEnded') =>
             loop'.pc = "sleep"
    ]_vars

\* a tick has raised, the retry sleep is over and the task is alive
C28_Witness ==
    /\ watch_log.tick.kind = "raised"
    /\ loop.pc = "sleep"
    /\ AUTO_WATCH_STATE.task = "running"
    /\ AUTO_WATCH_STATE.last_error = <<"OSError">>

----------------------------------------------------------------------------
\* SpecSettle: _handle_auto_watch_file for one new note, from its call of
\* _wait_for_stable_file on, with the sizes the file has while it is being
\* written, rewritten or deleted from outside. probe holds the locals of
\* _wait_for_stable_file, the sizes sampled so far and the size of the file.

AUTO_WATCH_SETTLE_ATTEMPTS == 3

\* attempts = AUTO_WATCH_SETTLE_ATTEMPTS * 3
attempts == AUTO_WATCH_SETTLE_ATTEMPTS * 3

\* st_size of the note while it exists; Gone stands for no file
Sizes == {1, 2}
Gone == -1

\* the loop has found a.md new in /vaultA and its handler has seen that it is
\* a file
SettleInit ==
    /\ SESSION_STATE = EmptySession
    /\ now = 2
    /\ minted = 0
    /\ settings = StreamSettings
    /\ ApiIdle
    /\ InvIdle
    /\ StreamIdle
    /\ AUTO_WATCH_STATE = [WatchStateInit(TRUE) EXCEPT !.task = "running",
                                                      !.vault_path = "/vaultA",
                                                      !.known_files = {NoteA}]
    /\ watch_config = [vault_path         |-> "/vaultA",
                       auto_watch_enabled |-> TRUE,
                       issue_folder       |-> DefaultIssueFolder]
    /\ fs = [r \in Roots |-> IF r = "/vaultA"
                              THEN [kind |-> "dir", files |-> {NoteA}]
                              ELSE [kind |-> "dir", files |-> {NoteA, NoteB}]]
    /\ loop = [pc |-> "settle", vault |-> "/vaultA", new_files |-> <<>>,
               rel_path |-> NoteA, file_vault |-> "/vaultA"]
    /\ watch_log = [tick      |-> [kind |-> "diff", vault |-> "/vaultA",
                                   quiet |-> FALSE, known_before |-> {},
                                   current |-> {NoteA}],
                    handled   |-> <<>>,
                    in_flight |-> {NoteA},
                    handed    |-> {NoteA},
                    absorbed  |-> {},
                    dirty     |-> FALSE,
                    events    |-> 1]
    /\ save_log = <<>>
    /\ \E size \in Sizes :
           probe = [op |-> "settle", last_size |-> -1, stable_count |-> 0,
                    attempt |-> 0, samples |-> <<>>, size |-> size]

\* a wait that gives the file up when the attempts are used up
exhausted_gives_up(size) == FALSE

\* after the for loop: return file_abs.exists()
Exhausted(size) == size # Gone

\* _handle_auto_watch_file after _wait_for_stable_file has returned: on True
\* summarize_file_to_issue runs up to its subprocess await, on False the
\* handler returns
SettleReturn(stable) ==
    IF stable
    THEN /\ loop' = [loop EXCEPT !.pc = "summarize"]
         /\ UNCHANGED watch_log
    ELSE /\ loop' = [loop EXCEPT !.pc = "next_file", !.rel_path = <<>>,
                                 !.file_vault = ""]
         /\ watch_log' = Logged(loop.file_vault, loop.rel_path, "skipped")

\* one pass of the for loop of _wait_for_stable_file: stat, the comparison
\* with last_size, and the return or the sleep
SettleSample ==
    /\ loop.pc = "settle"
    /\ probe.attempt < attempts
    /\ LET current_size == probe.size
           sampled == [probe EXCEPT !.samples = Append(@, current_size),
                                    !.attempt = @ + 1]
       IN  IF current_size = Gone
           THEN /\ probe' = sampled
                /\ SettleReturn(FALSE)
           ELSE IF current_size = probe.last_size
           THEN /\ probe' = [sampled EXCEPT !.stable_count = @ + 1]
                /\ IF probe.stable_count + 1 >= AUTO_WATCH_SETTLE_ATTEMPTS
                   THEN SettleReturn(TRUE)
                   ELSE UNCHANGED <<loop, watch_log>>
           ELSE /\ probe' = [sampled EXCEPT !.stable_count = 0,
                                            !.last_size = current_size]
                /\ UNCHANGED <<loop, watch_log>>
    /\ UNCHANGED <<now, AUTO_WATCH_STATE, watch_config, fs, save_log>>
    /\ UNCHANGED <<SESSION_STATE, settings, minted, apiVars, invVars, streamVars>>

\* the for loop has run attempts times without a return
SettleExhausted ==
    /\ loop.pc = "settle"
    /\ probe.attempt = attempts
    /\ SettleReturn(Exhausted(probe.size))
    /\ UNCHANGED <<now, AUTO_WATCH_STATE, watch_config, fs, save_log, probe>>
    /\ UNCHANGED <<SESSION_STATE, settings, minted, apiVars, invVars, streamVars>>

\* the writer of the note appends to it or rewrites it
FileWritten(size) ==
    /\ loop.pc = "settle"
    /\ probe.size \notin {Gone, size}
    /\ probe' = [probe EXCEPT !.size = size]
    /\ UNCHANGED <<now, AUTO_WATCH_STATE, watch_config, fs, loop, watch_log, save_log>>
    /\ UNCHANGED <<SESSION_STATE, settings, minted, apiVars, invVars, streamVars>>

\* the note is deleted
FileDeleted ==
    /\ loop.pc = "settle"
    /\ probe.size # Gone
    /\ probe' = [probe EXCEPT !.size = Gone]
    /\ fs' = [fs EXCEPT ![loop.file_vault].files = @ \ {loop.rel_path}]
    /\ UNCHANGED <<now, AUTO_WATCH_STATE, watch_config, loop, watch_log, save_log>>
    /\ UNCHANGED <<SESSION_STATE, settings, minted, apiVars, invVars, streamVars>>

SettleNext ==
    \/ SettleSample
    \/ SettleExhausted
    \/ \E size \in Sizes : FileWritten(size)
    \/ FileDeleted
    \/ WatchSummarized

SpecSettle == SettleInit /\ [][SettleNext]_vars

\* the last n samples exist and are one size
StableTail(samples, n) ==
    /\ Len(samples) >= n
    /\ \A k \in (Len(samples) - n + 1)..Len(samples) :
           samples[k] # Gone /\ samples[k] = samples[Len(samples)]

\* the handler returns without having called summarize_file_to_issue
GivenUp ==
    /\ loop.pc = "settle"
    /\ loop'.pc = "next_file"

\* C29: a new file is handed to the summarizer only after its size has been
\* the same in AUTO_WATCH_SETTLE_ATTEMPTS consecutive samples, taken within
\* the bounded number of attempts; when that does not happen, or the file
\* disappears, the file is given up silently: no subprocess, no change of the
\* statistics or of last_error. The wait never takes more samples than the
\* attempt bound.
C29_SummarizedOnlyWhenStable ==
    /\ [](Len(probe.samples) <= attempts)
    /\ [](loop.pc = "summarize" => StableTail(probe.samples, AUTO_WATCH_SETTLE_ATTEMPTS))
    /\ [][GivenUp => (AUTO_WATCH_STATE' = AUTO_WATCH_STATE /\ fs' = fs)]_vars

\* the handling of a file ends on this step with the given outcome
HandlingEnds(outcome) ==
    /\ Len(watch_log'.handled) = Len(watch_log.handled) + 1
    /\ watch_log'.handled[Len(watch_log'.handled)].outcome = outcome

\* the four statistics of the last processed file
LastProcessed(state) ==
    <<state.processed_count, state.last_processed_file, state.last_saved_path,
      state.last_processed_at>>

\* C30: the step that ends a successful summarize-and-save adds one to
\* processed_count, sets last_processed_file to the file, last_saved_path to
\* the issue written and last_processed_at to the time, and clears last_error
\* and last_error_at, all at once; a step that ends a handling as skipped or
\* failed leaves processed_count and the three last-processed fields as they
\* were, and they change on no other step.
C30_StatisticsOnSuccessOnly ==
    [][/\ HandlingEnds("saved") =>
             LET done == watch_log'.handled[Len(watch_log'.handled)]
             IN  /\ AUTO_WATCH_STATE'.processed_count =
                        AUTO_WATCH_STATE.processed_count + 1
                 /\ AUTO_WATCH_STATE'.last_processed_file = done.path
                 /\ AUTO_WATCH_STATE'.last_saved_path \in fs'[done.vault].files
                 /\ AUTO_WATCH_STATE'.last_saved_path # <<>>
                 /\ AUTO_WATCH_STATE'.last_processed_at = now
                 /\ AUTO_WATCH_STATE'.last_error = <<>>
                 /\ AUTO_WATCH_STATE'.last_error_at = 0
       /\ (HandlingEnds("skipped") \/ HandlingEnds("failed")) =>
             LastProcessed(AUTO_WATCH_STATE') = LastProcessed(AUTO_WATCH_STATE)
       /\ LastProcessed(AUTO_WATCH_STATE') # LastProcessed(AUTO_WATCH_STATE) =>
             HandlingEnds("saved")
    ]_vars

\* in one batch a file failed, leaving its error, and a later one was saved,
\* which cleared it
C30_Witness ==
    /\ Len(watch_log.handled) = 2
    /\ watch_log.handled[1].outcome = "failed"
    /\ watch_log.handled[2].outcome = "saved"
    /\ AUTO_WATCH_STATE.processed_count = 1
    /\ AUTO_WATCH_STATE.last_processed_file = watch_log.handled[2].path
    /\ AUTO_WATCH_STATE.last_error = <<>>

----------------------------------------------------------------------------
\* SpecOverlap: summarize_file_to_issue called by the watch handler and by
\* the /summarize route at overlapping times.  Both run as coroutines of the
\* one event loop; the only suspension point of summarize_file_to_issue is
\* the await of the subprocess, and _save_ai_output, a plain function, runs
\* from the listing of the folder to write_text without another coroutine in
\* between.

Summarizers == {"watch", "api"}

MaxSummarizations == 2

OverlapSources ==
    {<< <<"team">>, NoteName >>,
     << <<"my", " ", "team">>, NoteName >>,
     << NoteName >>}

\* op numbers the calls in the order they started
NotSummarizing == [pc |-> "idle", source_path |-> <<>>, op |-> 0]

OverlapInit ==
    /\ SessionInit
    /\ settings = StreamSettings
    /\ ApiIdle
    /\ InvIdle
    /\ StreamIdle
    /\ AUTO_WATCH_STATE = WatchStateInit(FALSE)
    /\ watch_config = [vault_path         |-> "/vaultA",
                       auto_watch_enabled |-> FALSE,
                       issue_folder       |-> DefaultIssueFolder]
    /\ \E files \in {{}, SeedIssues} :
           fs = [r \in Roots |-> IF r = "/vaultA"
                                 THEN [kind |-> "dir", files |-> files]
                                 ELSE [kind |-> "dir", files |-> {}]]
    /\ loop = NoLoop
    /\ watch_log = NoWatchLog
    /\ save_log = <<>>
    /\ probe = [op      |-> "summarize",
                started |-> 0,
                calls   |-> [w \in Summarizers |-> NotSummarizing]]

OverlapFrame ==
    UNCHANGED <<sessVars, apiVars, invVars, streamVars,
                AUTO_WATCH_STATE, watch_config, loop, watch_log>>

\* summarize_file_to_issue up to its await: the file is read, the child is
\* spawned
SummarizeStart(w) ==
    /\ probe.calls[w].pc = "idle"
    /\ probe.started < MaxSummarizations
    /\ \E source_path \in OverlapSources :
           probe' = [probe EXCEPT !.started = @ + 1,
                                  !.calls[w] = [pc          |-> "subprocess",
                                                source_path |-> source_path,
                                                op          |-> probe.started + 1]]
    /\ UNCHANGED <<fs, save_log>>
    /\ OverlapFrame

\* the calls that are waiting for their subprocess
Awaiting == {probe.calls[w].op : w \in {v \in Summarizers : probe.calls[v].pc = "subprocess"}}

\* _save_ai_output run by summarizer w on the listing `files`; the save
\* record notes the calls that are under way while it is made
SaveOn(w, files) ==
    /\ probe.calls[w].pc = "subprocess"
    /\ \E title_raw \in SaveTitles :
           LET vault == watch_config.vault_path
               call  == probe.calls[w]
               saved == _save_ai_output(files, call.source_path, title_raw,
                                        watch_config.issue_folder)
           IN  /\ fs' = [fs EXCEPT ![vault].files = @ \cup {saved.out_path}]
               /\ save_log' = Append(save_log,
                                     saved @@ [by      |-> w,
                                               op      |-> call.op,
                                               running |-> Awaiting \ {call.op}])
    /\ probe' = [probe EXCEPT !.calls[w] = NotSummarizing]
    /\ OverlapFrame

\* a save that numbers from the folder as it was before the saves made so
\* far
summarize_saves_stale(w) ==
    SaveOn(w, fs[watch_config.vault_path].files
                  \ {save_log[i].out_path : i \in 1..Len(save_log)})

\* the await returns the output and _save_ai_output runs to its end, from
\* the listing of the folder to write_text
SummarizeSaves(w) == SaveOn(w, fs[watch_config.vault_path].files)

\* the await raises (time limit, exit code, empty output): nothing is saved
SummarizeRaises(w) ==
    /\ probe.calls[w].pc = "subprocess"
    /\ probe' = [probe EXCEPT !.calls[w] = NotSummarizing]
    /\ UNCHANGED <<fs, save_log>>
    /\ OverlapFrame

OverlapNext ==
    \E w \in Summarizers :
        \/ SummarizeStart(w)
        \/ SummarizeSaves(w)
        \/ SummarizeRaises(w)

SpecOverlap == OverlapInit /\ [][OverlapNext]_vars

\* the summarization that made save b was under way when save a was made
Overlapped(a, b) == b.op \in a.running

----------------------------------------------------------------------------
\* SpecTasks: the life of the auto-watch loop tasks under the lifespan of the
\* application and the two /auto-watch routes.  The loop of a task is left
\* out: a task ends only when it has been cancelled (C28), in a step of its
\* own after task.cancel().  probe.held is the task object in
\* _AUTO_WATCH_STATE["task"] (0 for None), probe.alive the tasks created and
\* not done.

\* the startup creates one task; another one is created only while
\* stop_auto_watch awaits, and then it is held until the end
LoopTaskIds == {1, 2}

NoTasks ==
    [op         |-> "tasks",
     lifespan   |-> "startup",     \* startup, serving, stopping, stopped
     created    |-> 0,             \* the tasks are numbered as created
     held       |-> 0,
     awaited    |-> 0,             \* the task stop_auto_watch is awaiting
     alive      |-> {},
     cancelling |-> {}]            \* cancelled and not yet done

TasksInit ==
    /\ SessionInit
    /\ settings = StreamSettings
    /\ ApiIdle
    /\ InvIdle
    /\ StreamIdle
    /\ \E enabled \in BOOLEAN :
           /\ AUTO_WATCH_STATE = WatchStateInit(enabled)
           /\ watch_config = [vault_path         |-> "/vaultA",
                              auto_watch_enabled |-> enabled,
                              issue_folder       |-> DefaultIssueFolder]
    /\ \E files \in SUBSET {NoteA, NoteB} :
           fs = [r \in Roots |-> IF r = "/vaultA"
                                 THEN [kind |-> "dir", files |-> files]
                                 ELSE [kind |-> "dir", files |-> {NoteA, NoteB}]]
    /\ loop = NoLoop
    /\ watch_log = NoWatchLog
    /\ save_log = <<>>
    /\ probe = NoTasks

TasksFrame ==
    UNCHANGED <<sessVars, apiVars, invVars, streamVars, now, fs, loop,
                watch_log, save_log>>

\* _ensure_auto_watch_task_locked on the tasks t
_ensure_auto_watch_task_locked(t) ==
    IF t.held = 0 \/ t.held \notin t.alive
    THEN [t EXCEPT !.created = @ + 1,
                   !.held = t.created + 1,
                   !.alive = @ \cup {t.created + 1}]
    ELSE t

\* the "task" field of the state as the other specifications see it
Held(state, t) == [state EXCEPT !.task = IF t.held = 0 THEN "none" ELSE "running"]

\* start_auto_watch, from the lifespan of the application
TasksStartup ==
    /\ probe.lifespan = "startup"
    /\ LET t == _ensure_auto_watch_task_locked(probe)
       IN  /\ probe' = [t EXCEPT !.lifespan = "serving"]
           /\ AUTO_WATCH_STATE' =
                  Held(IF AUTO_WATCH_STATE.enabled
                       THEN [AUTO_WATCH_STATE EXCEPT
                                !.vault_path = watch_config.vault_path,
                                !.known_files =
                                    _scan_watch_candidates(watch_config.vault_path)]
                       ELSE AUTO_WATCH_STATE, t)
    /\ UNCHANGED watch_config
    /\ TasksFrame

\* the routes are served from the end of the startup until stop_auto_watch
\* has returned
Serving == probe.lifespan \in {"serving", "stopping"}

\* get_auto_watch_status
GetStatus ==
    /\ Serving
    /\ probe' = _ensure_auto_watch_task_locked(probe)
    /\ AUTO_WATCH_STATE' = Held(AUTO_WATCH_STATE, probe')
    /\ UNCHANGED watch_config
    /\ TasksFrame

\* set_auto_watch_status(enabled)
SetStatus(enabled) ==
    /\ Serving
    /\ watch_config' = [watch_config EXCEPT !.auto_watch_enabled = enabled]
    /\ probe' = _ensure_auto_watch_task_locked(probe)
    /\ AUTO_WATCH_STATE' =
           Held(IF enabled
                THEN [AUTO_WATCH_STATE EXCEPT
                         !.enabled = TRUE,
                         !.vault_path = watch_config.vault_path,
                         !.known_files = _scan_watch_candidates(watch_config.vault_path),
                         !.last_error = <<>>,
                         !.last_error_at = 0]
                ELSE [AUTO_WATCH_STATE EXCEPT
                         !.enabled = FALSE,
                         !.vault_path = "",
                         !.known_files = {}], probe')
    /\ UNCHANGED fs
    /\ TasksFrame

\* update_config -> set_vault_path(root), served by a worker thread
SetRoot(root) ==
    /\ Serving
    /\ root # watch_config.vault_path
    /\ fs[root].kind = "dir"
    /\ watch_config' = [watch_config EXCEPT !.vault_path = root]
    /\ UNCHANGED <<AUTO_WATCH_STATE, probe>>
    /\ TasksFrame

\* stop_auto_watch up to its await: the task is taken out of the state and
\* cancelled
StopBegins ==
    /\ probe.lifespan = "serving"
    /\ probe' = [probe EXCEPT
                    !.lifespan   = IF probe.held \in probe.alive
                                   THEN "stopping" ELSE "stopped",
                    !.held       = 0,
                    !.awaited    = IF probe.held \in probe.alive THEN probe.held ELSE 0,
                    !.cancelling = IF probe.held \in probe.alive
                                   THEN @ \cup {probe.held} ELSE @]
    /\ AUTO_WATCH_STATE' = Held(AUTO_WATCH_STATE, probe')
    /\ UNCHANGED watch_config
    /\ TasksFrame

\* the cancelled task runs: CancelledError leaves its coroutine
CancelledTaskEnds(id) ==
    /\ id \in probe.cancelling
    /\ probe' = [probe EXCEPT !.alive = @ \ {id}, !.cancelling = @ \ {id}]
    /\ UNCHANGED <<AUTO_WATCH_STATE, watch_config>>
    /\ TasksFrame

\* asyncio.gather(task, return_exceptions=True) returns
StopReturns ==
    /\ probe.lifespan = "stopping"
    /\ probe.awaited \notin probe.alive
    /\ probe' = [probe EXCEPT !.lifespan = "stopped", !.awaited = 0]
    /\ UNCHANGED <<AUTO_WATCH_STATE, watch_config>>
    /\ TasksFrame

TasksNext ==
    \/ TasksStartup
    \/ GetStatus
    \/ \E enabled \in BOOLEAN : SetStatus(enabled)
    \/ \E root \in Roots : SetRoot(root)
    \/ StopBegins
    \/ \E id \in LoopTaskIds : CancelledTaskEnds(id)
    \/ StopReturns

SpecTasks == TasksInit /\ [][TasksNext]_vars

\* C32: at any time at most one auto-watch loop task is created and not
\* done, a status query or a toggle served while stop_auto_watch awaits the
\* cancelled task included.
C32_AtMostOneLoopTask == Cardinality(probe.alive) <= 1

----------------------------------------------------------------------------
\* SpecTurns: the invocations of Spec under a turn limit that is smaller than
\* the number of invocations made, with session reuse on.

TurnsInit ==
    /\ SessionInit
    /\ settings = [StreamSettings EXCEPT !.claude_cli_session_max_turns = MaxCalls - 1]
    /\ ApiIdle
    /\ InvIdle
    /\ StreamIdle
    /\ VaultIdle

SpecTurns == TurnsInit /\ [][Next]_vars

\* C33: with a positive turn limit N and every invocation of the
\* session-capable agent made under the execution lock, the turn count of
\* the session never exceeds N.
C33_TurnsNeverExceedLimit ==
    TurnSetting > 0 => SESSION_STATE.turns <= TurnSetting

----------------------------------------------------------------------------
\* the step calls the handler for the path p
HandsOver(p) ==
    /\ loop.pc = "next_file"
    /\ loop'.pc = "settle"
    /\ loop'.rel_path = p

\* C34: a path is handed to the handler only out of the batch of a tick at
\* whose diff it was in the scan and not in known_files, and a path that has
\* been handed to the handler and has been in every scan made since (by a
\* tick or by the snapshot of an enabling toggle) is not handed to it again,
\* whatever ticks, toggles, root switches and handler failures come in
\* between; so a file that stays present under an unchanged root is handled
\* at most once.
C34_HandedAtMostOnce ==
    [][\A p \in WatchPaths :
          HandsOver(p) =>
              /\ watch_log.tick.kind = "diff"
              /\ p \in watch_log.tick.current \ watch_log.tick.known_before
              /\ p \notin watch_log.handed
    ]_vars

\* a file was handed to the handler, failed, and a later tick found its path
\* in its scan and in known_files and queued nothing
C34_Witness ==
    /\ loop.pc = "sleep"
    /\ AUTO_WATCH_STATE.last_error # <<>>
    /\ watch_log.tick.kind = "diff"
    /\ watch_log.handled = <<>>
    /\ \E p \in watch_log.handed :
           /\ p \in watch_log.tick.known_before
           /\ p \in watch_log.tick.current

----------------------------------------------------------------------------
\* SpecFeedback: the watch loop summarizing what its scanner returns, under
\* each setting of the output folder.

FeedbackInit ==
    /\ SessionInit
    /\ settings = StreamSettings
    /\ ApiIdle
    /\ InvIdle
    /\ StreamIdle
    /\ AUTO_WATCH_STATE = WatchStateInit(FALSE)
    /\ \E folder \in IssueFolders :
           watch_config = [vault_path         |-> "/vaultA",
                           auto_watch_enabled |-> FALSE,
                           issue_folder       |-> folder]
    /\ \E files \in SUBSET {<<NoteName>>, << <<"team">>, NoteName >>} :
           fs = [r \in Roots |-> IF r = "/vaultA"
                                 THEN [kind |-> "dir", files |-> files]
                                 ELSE [kind |-> "dir", files |-> {}]]
    /\ loop = NoLoop
    /\ watch_log = NoWatchLog
    /\ save_log = <<>>
    /\ probe = NoProbe

\* a file the scanner returns is summarized and its issue is written
SummarizeScanned ==
    /\ Len(save_log) < MaxSaves
    /\ \E source_path \in _scan_watch_candidates(watch_config.vault_path),
          title_raw \in SaveTitles :
           LET vault == watch_config.vault_path
               saved == _save_ai_output(fs[vault].files, source_path, title_raw,
                                        watch_config.issue_folder)
           IN  /\ fs' = [fs EXCEPT ![vault].files = @ \cup {saved.out_path}]
               /\ save_log' = Append(save_log, saved @@ [source |-> source_path])
    /\ UNCHANGED <<sessVars, apiVars, invVars, streamVars,
                   AUTO_WATCH_STATE, watch_config, loop, watch_log, probe>>

FeedbackNext == SummarizeScanned

SpecFeedback == FeedbackInit /\ [][FeedbackNext]_vars

\* C35: no file written by the issue writer, into <account>/Issues or into
\* the configured output folder, is returned by the scanner under the
\* configuration it was written under.
C35_OutputNeverScanned ==
    \A i \in 1..Len(save_log) :
        save_log[i].out_path \notin _scan_watch_candidates(watch_config.vault_path)

----------------------------------------------------------------------------
\* C36: when an invocation has ended, by success, error, timeout or the
\* cancellation of its caller, the child it spawned has exited or has been
\* killed.
C36_NoChildOutlivesInvocation ==
    \A i \in Procs : inv[i].pc = "done" => inv[i].child # "running"

----------------------------------------------------------------------------
\* SpecLock: the invocations of Spec under fair scheduling.  The event loop
\* and the worker threads run every step of a runner that is ready, asyncio
\* and subprocess.run fire an armed timeout, the lock is handed to a waiter
\* once it is free, and the consumer of a stream that has yielded its done
\* event asks for the next one.  What the child does (reading its stdin,
\* exiting) and what the callers do (calling, cancelling) is not forced.

LockFairness ==
    \A i \in Procs :
        /\ WF_vars(Acquire(i))
        /\ WF_vars(Validate(i))
        /\ WF_vars(Spawn(i) \/ SpawnNotFound(i))
        /\ WF_vars(StdinRaises(i))
        /\ WF_vars(Collect(i))
        /\ WF_vars(RunTimeout(i))
        /\ WF_vars(AsyncTimeout(i))
        /\ WF_vars(WaitKilled(i))
        /\ WF_vars(Touch(i))
        /\ WF_vars(MaybeReset(i))
        /\ WF_vars(Deliver(i))
        /\ WF_vars(Finish(i))

SpecLock == TurnsInit /\ [][Next]_vars /\ LockFairness

\* C37: an invocation that has ended does not hold the execution lock, and
\* under fair scheduling every invocation that waits for the lock gets past
\* the wait.
C37_LockReleasedWaitersRun ==
    /\ [](\A i \in Procs : inv[i].pc = "done" => EXEC_LOCK # i)
    /\ \A i \in Procs : (inv[i].pc = "acquire") ~> (inv[i].pc # "acquire")

----------------------------------------------------------------------------
\* SpecPipeline: the watch loop with its scheduling, on a root that stays as
\* configured.  The event loop runs every coroutine that is ready: the
\* lifespan starts the loop task, the poll sleep and the stability sleep
\* return, and the await of the subprocess returns because the call
\* terminates.  Requests to the status route and changes made to the notes
\* from outside are under no obligation.

PipelinePaths == {NoteA, NoteB}

PipelineNext ==
    \/ Startup
    \/ WatchTick
    \/ WatchNextFile
    \/ WatchSettle
    \/ WatchSummarized
    \/ \E enabled \in BOOLEAN : Toggle(enabled)
    \/ \E root \in ChangingRoots, p \in PipelinePaths : AddFile(root, p)
    \/ \E root \in ChangingRoots, p \in PipelinePaths : RemoveFile(root, p)

PipelineFairness ==
    /\ WF_vars(Startup)
    /\ WF_vars(WatchTick)
    /\ WF_vars(WatchNextFile)
    /\ WF_vars(WatchSettle)
    /\ WF_vars(WatchSummarized)

SpecPipeline == WatchInit /\ [][PipelineNext]_vars /\ PipelineFairness

\* auto-watch is enabled on the configured root, the loop tracks that root,
\* and the scanner finds p under it
Watching(p) ==
    /\ AUTO_WATCH_STATE.enabled
    /\ AUTO_WATCH_STATE.vault_path = watch_config.vault_path
    /\ fs[watch_config.vault_path].kind = "dir"
    /\ p \in _scan_watch_candidates(watch_config.vault_path)

\* p has appeared under the watched root since the baseline was taken; the
\* clock of the model leaves room for another tick
Appeared(p) ==
    /\ loop.pc # "none"
    /\ Watching(p)
    /\ p \notin AUTO_WATCH_STATE.known_files
    /\ now < MaxTime

\* _handle_auto_watch_file has been called for p
Handed(p) ==
    /\ loop.pc = "settle"
    /\ loop.rel_path = p

====
